---- MODULE Spec2Model ----
(***************************************************************************)
(* State-machine model of the speech-to-text / text-to-speech bridge       *)
(* (SttTtsPlugin) of packages/client-twitter/src/plugins/                  *)
(* SttTtsSpacesPlugin.ts.                                                  *)
(*                                                                         *)
(* One action is one turn of the JavaScript event loop: a handler runs     *)
(* from the event that wakes it up to its next await on an external        *)
(* completion (network call, child process exit, timer).  Awaits on        *)
(* promises that are already settled only yield to the micro-task queue,   *)
(* which is drained before the next event is handled, so they do not end   *)
(* an action.                                                              *)
(***************************************************************************)
EXTENDS Integers, Sequences, FiniteSets, TLC

(***************************************************************************)
(* Program constants                                                       *)
(***************************************************************************)
VOLUME_WINDOW_SIZE == 100
SPEAKING_THRESHOLD_NUM == 5
SPEAKING_THRESHOLD_DEN == 100
silenceThreshold == 50
SAMPLE_RATE == 48000
INT16_SCALE == 32768

(***************************************************************************)
(* Bounds of the model                                                     *)
(***************************************************************************)
MaxChunks == 2
MaxTimers == 2
MaxQueue == 2
MaxSpeak == 3
MaxDrains == 2
MaxTextLen == 3
MaxWavLen == 2

(***************************************************************************)
(* Values                                                                  *)
(***************************************************************************)
Users == {"u1", "u2"}
NoTimer == 0
NoToken == 0
NegInfinity == -1000000

Max(a, b) == IF a > b THEN a ELSE b
Abs(v) == IF v < 0 THEN -v ELSE v
MinFree(used) == CHOOSE k \in 1..(Cardinality(used) + 1) :
                     k \notin used /\ \A j \in 1..(k - 1) : j \in used

RECURSIVE SumSeq(_)
SumSeq(s) == IF s = <<>> THEN 0 ELSE Head(s) + SumSeq(Tail(s))

RECURSIVE Flatten(_)
Flatten(chunks) ==
    IF chunks = <<>> THEN <<>> ELSE Head(chunks) \o Flatten(Tail(chunks))

(***************************************************************************)
(* Audio frames: a frame is a sequence of signed 16-bit samples            *)
(***************************************************************************)
SilentFrames == {<<>>, <<10, -49>>, <<49>>}
LoudFrame == <<32767, -60>>
Frames == SilentFrames \cup {LoudFrame}

\* lines 149-153: peak absolute amplitude of the whole frame
RECURSIVE maxVal(_)
maxVal(samples) ==
    IF samples = <<>> THEN 0 ELSE Max(Abs(Head(samples)), maxVal(Tail(samples)))

\* Math.abs mapped over an Int16Array: the result is stored back as Int16,
\* so abs(-32768) = 32768 wraps to -32768
AbsInt16(v) == IF v = -INT16_SCALE THEN -INT16_SCALE ELSE Abs(v)

\* Math.max(...xs): -Infinity for no argument
RECURSIVE MathMax(_)
MathMax(xs) ==
    IF xs = <<>> THEN NegInfinity
    ELSE Max(AbsInt16(Head(xs)), MathMax(Tail(xs)))

\* lines 206-211: the view holds the first length/2 samples of the frame;
\* the value pushed is maxAmplitude, kept here multiplied by 32768
maxAmplitude(samples) == MathMax(SubSeq(samples, 1, Len(samples) \div 2))

\* lines 217-221: avgVolume = sum / VOLUME_WINDOW_SIZE > SPEAKING_THRESHOLD
\* (a -Infinity entry makes the sum -Infinity)
avgVolumeExceeds(volumeBuffer) ==
    /\ \A i \in 1..Len(volumeBuffer) : volumeBuffer[i] # NegInfinity
    /\ SumSeq(volumeBuffer) * SPEAKING_THRESHOLD_DEN
           > SPEAKING_THRESHOLD_NUM * INT16_SCALE * VOLUME_WINDOW_SIZE

(***************************************************************************)
(* Texts: a text is a sequence of one-character strings                    *)
(***************************************************************************)
NullText == <<"<null>">>
WhiteSpace == {" "}

toLowerCaseChar(c) ==
    CASE c = "B" -> "b" [] c = "O" -> "o" [] c = "K" -> "k"
      [] c = "S" -> "s" [] c = "E" -> "e" [] c = "X" -> "x"
      [] OTHER -> c

toLowerCase(text) == [i \in 1..Len(text) |-> toLowerCaseChar(text[i])]

\* String.prototype.startsWith in place of includes
startsWith(text, word) ==
    Len(word) <= Len(text) /\ SubSeq(text, 1, Len(word)) = word

\* String.prototype.includes
includes(text, word) ==
    \E i \in 0..(Len(text) - Len(word)) :
        SubSeq(text, i + 1, i + Len(word)) = word

\* String.prototype.trim
RECURSIVE trimStart(_)
trimStart(text) ==
    IF text # <<>> /\ Head(text) \in WhiteSpace THEN trimStart(Tail(text))
    ELSE text

RECURSIVE trimEnd(_)
trimEnd(text) ==
    IF text # <<>> /\ text[Len(text)] \in WhiteSpace
    THEN trimEnd(SubSeq(text, 1, Len(text) - 1))
    ELSE text

trim(text) == trimEnd(trimStart(text))

\* runtime.character.name
characterName == <<"B", "o">>

loseInterestWords ==
    { <<"s", "h", "u", "t", " ", "u", "p">>,
      <<"s", "t", "o", "p">>,
      <<"d", "o", "n", "t", " ", "t", "a", "l", "k">>,
      <<"s", "i", "l", "e", "n", "c", "e">>,
      <<"s", "t", "o", "p", " ", "t", "a", "l", "k", "i", "n", "g">>,
      <<"b", "e", " ", "q", "u", "i", "e", "t">>,
      <<"h", "u", "s", "h">>,
      <<"s", "t", "f", "u">>,
      <<"s", "t", "u", "p", "i", "d", " ", "b", "o", "t">>,
      <<"d", "u", "m", "b", " ", "b", "o", "t">>,
      <<"f", "u", "c", "k">>,
      <<"s", "h", "i", "t">>,
      <<"d", "a", "m", "n">>,
      <<"s", "u", "c", "k">>,
      <<"d", "i", "c", "k">>,
      <<"c", "o", "c", "k">>,
      <<"s", "e", "x">>,
      <<"s", "e", "x", "y">> }

ignoreWords ==
    { <<"k">>, <<"o", "k">>, <<"b", "y", "e">>, <<"l", "o", "l">>,
      <<"n", "m">>, <<"u", "h">> }

\* _shouldIgnore with the length test of line 586 taken as "3 or less"
shouldIgnoreThreeOrLess(text) ==
    IF Len(text) <= 3 THEN TRUE
    ELSE IF Len(text) < 50
            /\ \E word \in loseInterestWords : includes(toLowerCase(text), word)
         THEN TRUE
    ELSE IF Len(text) < 8
            /\ \E word \in ignoreWords : includes(toLowerCase(text), word)
         THEN TRUE
    ELSE FALSE

\* lines 583-633
shouldIgnore(text) ==
    IF Len(text) < 3 THEN TRUE
    ELSE IF Len(text) < 50
            /\ \E word \in loseInterestWords : includes(toLowerCase(text), word)
         THEN TRUE
    ELSE IF Len(text) < 8
            /\ \E word \in ignoreWords : includes(toLowerCase(text), word)
         THEN TRUE
    ELSE FALSE

\* lines 639-644: the name-mention test that precedes the classifier call
mentionsName(message) ==
    includes(toLowerCase(message), toLowerCase(characterName))

\* the verdict with every answer but IGNORE and STOP taken as RESPOND
respondVerdictUnlessRefused(response) ==
    response # "IGNORE" /\ response # "STOP"

\* lines 662-674: the verdict for a classifier answer
respondVerdict(response) == response = "RESPOND"

(***************************************************************************)
(* WAV encoding (lines 233-281)                                            *)
(*                                                                         *)
(* An ArrayBuffer is a sequence of bytes; the byte at offset o is the      *)
(* element o + 1.                                                          *)
(***************************************************************************)
ArrayBuffer(n) == [k \in 1..n |-> 0]

charCodeAt(c) ==
    CASE c = "R" -> 82 [] c = "I" -> 73 [] c = "F" -> 70
      [] c = "W" -> 87 [] c = "A" -> 65 [] c = "V" -> 86 [] c = "E" -> 69
      [] c = "f" -> 102 [] c = "m" -> 109 [] c = "t" -> 116 [] c = " " -> 32
      [] c = "d" -> 100 [] c = "a" -> 97

setUint8(view, offset, v) == [view EXCEPT ![offset + 1] = v % 256]

\* DataView.setUint16(offset, v, true)
setUint16(view, offset, v) ==
    LET u == v % 65536
    IN  [view EXCEPT ![offset + 1] = u % 256, ![offset + 2] = u \div 256]

\* DataView.setUint32(offset, v, true): the four bytes of v modulo 2^32
setUint32(view, offset, v) ==
    [view EXCEPT ![offset + 1] = v % 256,
                 ![offset + 2] = (v \div 256) % 256,
                 ![offset + 3] = (v \div 65536) % 256,
                 ![offset + 4] = (v \div 16777216) % 256]

\* setInt16 without the littleEndian argument
setInt16BigEndian(view, offset, v) ==
    LET u == v % 65536
    IN  [view EXCEPT ![offset + 1] = u \div 256, ![offset + 2] = u % 256]

\* DataView.setInt16(offset, v, true): two's complement, low byte first
setInt16(view, offset, v) ==
    LET u == v % 65536
    IN  [view EXCEPT ![offset + 1] = u % 256, ![offset + 2] = u \div 256]

\* lines 277-281
RECURSIVE writeString(_, _, _)
writeString(view, offset, text) ==
    IF text = <<>> THEN view
    ELSE writeString(setUint8(view, offset, charCodeAt(Head(text))),
                     offset + 1, Tail(text))

\* lines 269-272: the loop from sample i (counted from 0) at offset
RECURSIVE writeSamples(_, _, _, _)
writeSamples(view, pcmData, i, offset) ==
    IF i < Len(pcmData)
    THEN writeSamples(setInt16(view, offset, pcmData[i + 1]),
                      pcmData, i + 1, offset + 2)
    ELSE view

\* lines 233-275
convertPcmToWavInMemory(pcmData, sampleRate) ==
    LET numChannels == 1
        byteRate == sampleRate * numChannels * 2
        blockAlign == numChannels * 2
        dataSize == Len(pcmData) * 2
        v0 == ArrayBuffer(44 + dataSize)
        v1 == writeString(v0, 0, <<"R", "I", "F", "F">>)
        v2 == setUint32(v1, 4, 36 + dataSize)
        v3 == writeString(v2, 8, <<"W", "A", "V", "E">>)
        v4 == writeString(v3, 12, <<"f", "m", "t", " ">>)
        v5 == setUint32(v4, 16, 16)
        v6 == setUint16(v5, 20, 1)
        v7 == setUint16(v6, 22, numChannels)
        v8 == setUint32(v7, 24, sampleRate)
        v9 == setUint32(v8, 28, byteRate)
        v10 == setUint16(v9, 32, blockAlign)
        v11 == setUint16(v10, 34, 16)
        v12 == writeString(v11, 36, <<"d", "a", "t", "a">>)
        v13 == setUint32(v12, 40, dataSize)
    IN  writeSamples(v13, pcmData, 0, 44)

\* no conversion observed yet
NoWav == [pcmData |-> <<>>, sampleRate |-> 0, buffer |-> <<>>]

(***************************************************************************)
(* State of the plugin                                                     *)
(***************************************************************************)
VARIABLES
    pcmBuffers,          \* userId -> chunks (absent key = empty sequence)
    volumeBuffers,       \* userId -> recent peaks (absent key = empty sequence)
    ttsQueue,            \* pending texts
    isSpeaking,
    isProcessingAudio,
    userSpeakingTimer,   \* handle of the last armed timer, or NoTimer
    ttsAbortController,  \* id of the controller in the field, or NoToken
    elevenLabsApiKey,    \* TRUE when a key is configured
    timers,              \* live timeouts of the event loop: [id, userId]
    abortedSignals,      \* ids of the controllers whose abort() was called
    procs,               \* processAudio invocations past the guard, by id
    drains,              \* processTtsQueue invocations in flight, by signal
    janus,               \* frames handed to janus.pushLocalAudio, in order
    enqueued,            \* texts passed to speakText, in order
    failedItems,         \* texts whose synthesis or transcoding failed
    finished,            \* the processAudio that returned last, until the
                         \* next one passes the guard
    keepHistory,         \* which of the histories are recorded
    wav                  \* the last call of convertPcmToWavInMemory observed

(***************************************************************************)
(* State of the Instagram services                                         *)
(***************************************************************************)
VARIABLES
    isProcessing,        \* InstagramInteractionService.isProcessing
    stopProcessing,      \* InstagramInteractionService.stopProcessing
    loops,               \* live processLoop closures, by id: "processInteractions"
                         \* while the call is awaited, "timer" while the
                         \* timeout is pending
    cycles,              \* processInteractions invocations past the guard,
                         \* by the id of the loop that awaits them
    begun,               \* number of invocations that passed the guard
    cache,               \* keys set in runtime.cacheManager
    cacheWriteFailed,    \* TRUE once a cacheManager.set has rejected
    replies,             \* key -> number of replies posted for it: 1, or
                         \* 2 for two or more
    retry,               \* a retryOperation call observed on its own
    isRunning,           \* InstagramPostService.isRunning
    intervalId,          \* InstagramPostService.intervalId
    postCalls,           \* start / scheduleNextPost invocations in flight
    postTimers,          \* live timeouts armed by scheduleNextPost
    generated            \* number of generateNewPost invocations

interactionVars == <<isProcessing, stopProcessing, loops, cycles, begun,
                     cache, cacheWriteFailed, replies>>
postVars == <<isRunning, intervalId, postCalls, postTimers, generated>>
instaVars == <<interactionVars, retry, postVars>>

NoRetry == [pc |-> "none"]

\* field initialisers of the two services and an empty cache
InitInstagram ==
    /\ isProcessing = FALSE
    /\ stopProcessing = FALSE
    /\ loops = <<>>
    /\ cycles = <<>>
    /\ begun = 0
    /\ cache = {}
    /\ cacheWriteFailed = FALSE
    /\ replies = <<>>
    /\ retry = NoRetry
    /\ isRunning = FALSE
    /\ intervalId = NoTimer
    /\ postCalls = <<>>
    /\ postTimers = {}
    /\ generated = 0

plugVars == <<pcmBuffers, volumeBuffers, ttsQueue, isSpeaking,
              isProcessingAudio, userSpeakingTimer, ttsAbortController,
              elevenLabsApiKey, timers, abortedSignals, procs, drains,
              janus, enqueued, failedItems, finished, keepHistory, wav, instaVars>>

\* the fields of the plugin object alone (no event-loop or transport state)
fieldVars == <<pcmBuffers, volumeBuffers, ttsQueue, isSpeaking,
               isProcessingAudio, userSpeakingTimer, ttsAbortController>>

NoChunks == [u \in Users |-> <<>>]

\* field initialisers (lines 82-96) and init() (lines 102-133)
InitPlugin ==
    /\ pcmBuffers = NoChunks
    /\ volumeBuffers = NoChunks
    /\ ttsQueue = <<>>
    /\ isSpeaking = FALSE
    /\ isProcessingAudio = FALSE
    /\ userSpeakingTimer = NoTimer
    /\ ttsAbortController = NoToken
    /\ elevenLabsApiKey \in BOOLEAN
    /\ timers = {}
    /\ abortedSignals = {}
    /\ procs = <<>>
    /\ drains = <<>>
    /\ janus = <<>>
    /\ enqueued = <<>>
    /\ failedItems = <<>>
    /\ finished = <<>>
    /\ wav = NoWav
    /\ InitInstagram

\* the histories janus, enqueued, failedItems and finished are kept only in the
\* specifications that observe them
Record(name, history, entry) ==
    IF name \in keepHistory THEN Append(history, entry) ELSE history

(***************************************************************************)
(* Text-to-speech queue (lines 414-462, 756-779)                           *)
(*                                                                         *)
(* The operators below work on a record T of the state the queue code      *)
(* reads and writes, so that one event can run several loop iterations.    *)
(***************************************************************************)
FRAME_SIZE == SAMPLE_RATE \div 100

Remove(f, i) == [j \in DOMAIN f \ {i} |-> f[j]]
Put(f, i, v) == [j \in DOMAIN f \cup {i} |-> IF j = i THEN v ELSE f[j]]

TtsState ==
    [queue |-> ttsQueue, ctrl |-> ttsAbortController, speaking |-> isSpeaking,
     drains |-> drains, aborted |-> abortedSignals, janus |-> janus,
     enqueued |-> enqueued, failed |-> failedItems]

\* new AbortController(): an identity no live signal carries
newAbortController(T, i) ==
    MinFree({T.drains[j].signal : j \in DOMAIN T.drains \ {i}})

\* lines 681-683: elevenLabsTts throws before any request without a key
ttsThrowsAtOnce == ~elevenLabsApiKey

\* lines 431-461: processTtsQueue of invocation i, from the loop test up to
\* its next await on the synthesis request, or to its return; an invocation
\* in flight is named by the controller of its current item
RECURSIVE processTtsQueue(_, _)
processTtsQueue(T, i) ==
    IF T.queue = <<>>
    THEN [T EXCEPT !.speaking = FALSE, !.drains = Remove(T.drains, i)]
    ELSE LET text == Head(T.queue)
             rest == Tail(T.queue)
             k == newAbortController(T, i)
         IN  IF text = <<>>
             THEN processTtsQueue([T EXCEPT !.queue = rest], i)
             ELSE IF ttsThrowsAtOnce
             THEN processTtsQueue(
                      [T EXCEPT !.queue = rest, !.ctrl = NoToken,
                                !.failed = Record("failedItems", @, text)], i)
             ELSE [T EXCEPT !.queue = rest,
                            !.ctrl = k,
                            !.aborted = @ \ {k},
                            !.drains = Put(Remove(T.drains, i), k,
                                [pc |-> "elevenLabsTts", text |-> text,
                                 signal |-> k, pcm |-> 0, offset |-> 0])]

\* the catch block taken as the end of the loop
itemFailedStopsLoop(T, i) ==
    [T EXCEPT !.ctrl = NoToken, !.speaking = FALSE,
              !.drains = Remove(T.drains, i),
              !.failed = Record("failedItems", @, T.drains[i].text)]

\* lines 454-459: an item failed: catch, finally, next iteration
itemFailed(T, i) ==
    processTtsQueue(
        [T EXCEPT !.ctrl = NoToken,
                  !.failed = Record("failedItems", @, T.drains[i].text)], i)

\* the loop taken to return after each streamed item
afterStreamReturns(T, i) ==
    [T EXCEPT !.ctrl = NoToken, !.speaking = FALSE,
              !.drains = Remove(T.drains, i)]

\* lines 448-459: after streamToJanus returned
afterStream(T, i) ==
    IF T.drains[i].signal \in T.aborted
    THEN [T EXCEPT !.ctrl = NoToken, !.drains = Remove(T.drains, i)]
    ELSE processTtsQueue([T EXCEPT !.ctrl = NoToken], i)

\* line 768: the test reads the controller in the field
streamAborted(T, i) == T.ctrl # NoToken /\ T.ctrl \in T.aborted

\* streamToJanus with the loop test offset < samples.length
streamToJanusPartial(T, i, offset) ==
    LET d == T.drains[i] IN
    IF offset < d.pcm
    THEN IF streamAborted(T, i)
         THEN afterStream(T, i)
         ELSE [T EXCEPT
                 !.janus = Record("janus", @,
                                 [text |-> d.text, offset |-> offset,
                                  pcm |-> d.pcm]),
                 !.drains = Put(T.drains, i,
                     [d EXCEPT !.pc = "delay", !.offset = offset])]
    ELSE afterStream(T, i)

\* lines 763-778: streamToJanus of invocation i, from the loop test at offset
streamToJanus(T, i, offset) ==
    LET d == T.drains[i] IN
    IF offset + FRAME_SIZE <= d.pcm
    THEN IF streamAborted(T, i)
         THEN afterStream(T, i)
         ELSE [T EXCEPT
                 !.janus = Record("janus", @,
                                 [text |-> d.text, offset |-> offset,
                                  pcm |-> d.pcm]),
                 !.drains = Put(T.drains, i,
                     [d EXCEPT !.pc = "delay", !.offset = offset])]
    ELSE afterStream(T, i)

\* lines 441-447: after convertMp3ToPcm resolved with n samples
afterConvert(T, i, n) ==
    IF T.drains[i].signal \in T.aborted
    THEN [T EXCEPT !.ctrl = NoToken, !.drains = Remove(T.drains, i)]
    ELSE streamToJanus(
             [T EXCEPT !.drains = Put(T.drains, i,
                                      [T.drains[i] EXCEPT !.pcm = n])],
             i, 0)

\* speakText without the test of line 416
startsDrainAlways(T) == TRUE

\* line 416: the test that decides whether speakText starts a drain loop
startsDrain(T) == ~T.speaking

\* speakText with unshift in place of push
speakTextUnshift(T, text) ==
    LET T1 == [T EXCEPT !.queue = <<text>> \o @,
                        !.enqueued = Record("enqueued", @, text)]
    IN  IF startsDrain(T)
        THEN processTtsQueue([T1 EXCEPT !.speaking = TRUE], NoToken)
        ELSE T1

\* lines 414-425
speakText(T, text) ==
    LET T1 == [T EXCEPT !.queue = Append(@, text),
                        !.enqueued = Record("enqueued", @, text)]
    IN  IF startsDrain(T)
        THEN processTtsQueue([T1 EXCEPT !.speaking = TRUE], NoToken)
        ELSE T1

\* the state after the queue code ran
SetTts(T) ==
    /\ ttsQueue' = T.queue
    /\ ttsAbortController' = T.ctrl
    /\ isSpeaking' = T.speaking
    /\ drains' = T.drains
    /\ abortedSignals' =
           T.aborted \cap {T.drains[j].signal : j \in DOMAIN T.drains}
    /\ janus' = T.janus
    /\ enqueued' = T.enqueued
    /\ failedItems' = T.failed

ttsVars == <<ttsQueue, ttsAbortController, isSpeaking, drains,
             abortedSignals, janus, enqueued, failedItems>>

\* bound of the model: the texts pending or, where the history is kept, the
\* calls of speakText; and the loops in flight
SpeakAllowed ==
    /\ IF "enqueued" \in keepHistory THEN Len(enqueued) < MaxSpeak
                                      ELSE Len(ttsQueue) < MaxQueue
    /\ ~isSpeaking => Cardinality(DOMAIN drains) < MaxDrains

\* a caller of the public method speakText
SpeakText(text) ==
    /\ SpeakAllowed
    /\ SetTts(speakText(TtsState, text))
    /\ UNCHANGED <<pcmBuffers, volumeBuffers, isProcessingAudio,
                   userSpeakingTimer, elevenLabsApiKey, timers, procs,
                   finished, keepHistory, wav, instaVars>>

\* the synthesis request of invocation i completes (lines 685-704)
TtsResolves(i, ok) ==
    /\ i \in DOMAIN drains
    /\ drains[i].pc = "elevenLabsTts"
    /\ IF ok
       THEN SetTts([TtsState EXCEPT !.drains[i].pc = "convertMp3ToPcm"])
       ELSE SetTts(itemFailed(TtsState, i))
    /\ UNCHANGED <<pcmBuffers, volumeBuffers, isProcessingAudio,
                   userSpeakingTimer, elevenLabsApiKey, timers, procs,
                   finished, keepHistory, wav, instaVars>>

\* ffmpeg of invocation i closes with an exit code and n samples
\* (lines 734-745)
FfmpegCloses(i, code, n) ==
    /\ i \in DOMAIN drains
    /\ drains[i].pc = "convertMp3ToPcm"
    /\ IF code # 0
       THEN SetTts(itemFailed(TtsState, i))
       ELSE SetTts(afterConvert(TtsState, i, n))
    /\ UNCHANGED <<pcmBuffers, volumeBuffers, isProcessingAudio,
                   userSpeakingTimer, elevenLabsApiKey, timers, procs,
                   finished, keepHistory, wav, instaVars>>

\* the 10 ms pause of invocation i elapses (lines 766, 777)
FrameDelayElapses(i) ==
    /\ i \in DOMAIN drains
    /\ drains[i].pc = "delay"
    /\ SetTts(streamToJanus(TtsState, i, drains[i].offset + FRAME_SIZE))
    /\ UNCHANGED <<pcmBuffers, volumeBuffers, isProcessingAudio,
                   userSpeakingTimer, elevenLabsApiKey, timers, procs,
                   finished, keepHistory, wav, instaVars>>

\* lines 800-807
Cleanup ==
    /\ pcmBuffers' = NoChunks
    /\ userSpeakingTimer' = NoTimer
    /\ ttsQueue' = <<>>
    /\ isSpeaking' = FALSE
    /\ volumeBuffers' = NoChunks
    /\ UNCHANGED <<isProcessingAudio, ttsAbortController, elevenLabsApiKey,
                   timers, abortedSignals, procs, drains, janus, enqueued,
                   failedItems,
                   finished, keepHistory, wav, instaVars>>

(***************************************************************************)
(* Audio intake (lines 138-230)                                            *)
(***************************************************************************)
\* onAudioData without the test of line 146
intakeNeverGated == FALSE

\* line 146
intakeGated == isProcessingAudio

silenceCheckMissing(samples) == FALSE

\* line 154
belowSilence(samples) == maxVal(samples) < silenceThreshold

\* lines 163-165: clearTimeout of the handle in the field
clearTimeout(ts, handle) == {t \in ts : t.id # handle}

\* the window with pop in place of shift
pushVolumeDropsNewest(volumeBuffer, v) ==
    LET pushed == Append(volumeBuffer, v)
    IN  IF Len(pushed) > VOLUME_WINDOW_SIZE
        THEN SubSeq(pushed, 1, Len(pushed) - 1)
        ELSE pushed

\* lines 212-216: push, then drop the oldest beyond the window size
pushVolume(volumeBuffer, v) ==
    LET pushed == Append(volumeBuffer, v)
    IN  IF Len(pushed) > VOLUME_WINDOW_SIZE THEN Tail(pushed) ELSE pushed

\* bound of the model: chunks kept per speaker and live timers
FrameAllowed(userId, samples) ==
    (~intakeGated /\ ~belowSilence(samples)) =>
        /\ Len(pcmBuffers[userId]) < MaxChunks
        /\ ~isSpeaking =>
               Cardinality(clearTimeout(timers, userSpeakingTimer)) < MaxTimers

OnAudioData(userId, samples) ==
    /\ FrameAllowed(userId, samples)
    /\ IF intakeGated \/ belowSilence(samples)
       THEN UNCHANGED plugVars
       ELSE LET cleared == clearTimeout(timers, userSpeakingTimer)
                handle == MinFree({t.id : t \in cleared})
                window == pushVolume(volumeBuffers[userId],
                                     maxAmplitude(samples))
            IN
            /\ pcmBuffers' = [pcmBuffers EXCEPT ![userId] = Append(@, samples)]
            /\ IF ~isSpeaking
               THEN /\ timers' = cleared \cup
                                   {[id |-> handle, userId |-> userId]}
                    /\ userSpeakingTimer' = handle
                    /\ UNCHANGED <<volumeBuffers, abortedSignals, isSpeaking>>
               ELSE /\ timers' = cleared
                    /\ UNCHANGED userSpeakingTimer
                    /\ IF avgVolumeExceeds(window)
                       THEN /\ volumeBuffers' =
                                   [volumeBuffers EXCEPT ![userId] = <<>>]
                            /\ IF ttsAbortController # NoToken
                               THEN /\ abortedSignals' = abortedSignals
                                           \cup {ttsAbortController}
                                    /\ isSpeaking' = FALSE
                               ELSE UNCHANGED <<abortedSignals, isSpeaking>>
                       ELSE /\ volumeBuffers' =
                                   [volumeBuffers EXCEPT ![userId] = window]
                            /\ UNCHANGED <<abortedSignals, isSpeaking>>
            /\ UNCHANGED <<ttsQueue, isProcessingAudio, ttsAbortController,
                           elevenLabsApiKey, procs, drains, janus, enqueued,
                           failedItems,
                           finished, keepHistory, wav, instaVars>>

(***************************************************************************)
(* processAudio and handleUserMessage (lines 286-409, 467-581)             *)
(***************************************************************************)
processAudioUnguarded == FALSE

\* line 292
processAudioGuard == isProcessingAudio

\* the merge of lines 315-321 that copies the chunks from the last to the first
startedProcLastFirst(userId, chunks) ==
    [pc |-> "transcribe", userId |-> userId,
     merged |-> Flatten([k \in 1..Len(chunks) |-> chunks[Len(chunks) + 1 - k]]),
     userText |-> NullText, reply |-> NullText, calls |-> <<"transcribe">>]

\* lines 295-332: the invocation that passed the guard and has chunks;
\* merged is the PCM of the transcription request, kept while it is pending
startedProc(userId, chunks) ==
    [pc |-> "transcribe", userId |-> userId, merged |-> Flatten(chunks),
     userText |-> NullText, reply |-> NullText, calls |-> <<"transcribe">>]

\* the flush with delete(userId) in place of the clear() of line 302
TimerFiresClearsOne(t) ==
    /\ t \in timers
    /\ timers' = timers \ {t}
    /\ userSpeakingTimer' = NoTimer
    /\ IF processAudioGuard
       THEN UNCHANGED <<pcmBuffers, isProcessingAudio, procs, finished>>
       ELSE LET chunks == pcmBuffers[t.userId] IN
            /\ pcmBuffers' = [pcmBuffers EXCEPT ![t.userId] = <<>>]
            /\ IF chunks = <<>>
               THEN /\ isProcessingAudio' = FALSE
                    /\ UNCHANGED <<procs, finished>>
               ELSE /\ isProcessingAudio' = TRUE
                    /\ procs' = Put(procs, MinFree(DOMAIN procs),
                                    startedProc(t.userId, chunks))
                    /\ finished' = <<>>
    /\ UNCHANGED <<volumeBuffers, ttsQueue, isSpeaking, ttsAbortController,
                   elevenLabsApiKey, abortedSignals, drains, janus, enqueued,
                   failedItems,
                   keepHistory, wav, instaVars>>

\* lines 186-198: the silence timer t fires and calls processAudio
TimerFires(t) ==
    /\ t \in timers
    /\ timers' = timers \ {t}
    /\ userSpeakingTimer' = NoTimer
    /\ IF processAudioGuard
       THEN UNCHANGED <<pcmBuffers, isProcessingAudio, procs, finished>>
       ELSE LET chunks == pcmBuffers[t.userId] IN
            /\ pcmBuffers' = NoChunks
            /\ IF chunks = <<>>
               THEN /\ isProcessingAudio' = FALSE
                    /\ UNCHANGED <<procs, finished>>
               ELSE /\ isProcessingAudio' = TRUE
                    /\ procs' = Put(procs, MinFree(DOMAIN procs),
                                    startedProc(t.userId, chunks))
                    /\ finished' = <<>>
    /\ UNCHANGED <<volumeBuffers, ttsQueue, isSpeaking, ttsAbortController,
                   elevenLabsApiKey, abortedSignals, drains, janus, enqueued,
                   failedItems,
                   keepHistory, wav, instaVars>>

\* the return without the finally block of lines 406-408
ProcEndsFlagKept(i, outcome) ==
    /\ procs' = Remove(procs, i)
    /\ UNCHANGED isProcessingAudio
    /\ finished' = Record("finished", <<>>,
                        [procs[i] EXCEPT !.pc = outcome])

\* lines 406-408: the invocation returns or its error is caught; outcome
\* names how it ended
ProcEnds(i, outcome) ==
    /\ procs' = Remove(procs, i)
    /\ isProcessingAudio' = FALSE
    /\ finished' = Record("finished", <<>>,
                        [procs[i] EXCEPT !.pc = outcome])

\* the invocation goes on to await the next call
ProcCalls(i, call) ==
    /\ procs' = [procs EXCEPT ![i].pc = call, ![i].calls = Append(@, call)]
    /\ UNCHANGED <<isProcessingAudio, finished>>

intakeRest == <<pcmBuffers, userSpeakingTimer, elevenLabsApiKey, timers,
               keepHistory, wav, instaVars>>

\* the test of line 359 without trim
noSpeechUntrimmed(sttText) == sttText = NullText \/ sttText = <<>>

\* line 359
noSpeech(sttText) == sttText = NullText \/ trim(sttText) = <<>>

\* transcribe resolves (lines 348-372)
Transcribed(i, sttText) ==
    /\ i \in DOMAIN procs
    /\ procs[i].pc = "transcribe"
    /\ IF noSpeech(sttText)
       THEN ProcEnds(i, "noSpeech")
       ELSE /\ procs' = [procs EXCEPT
                            ![i].pc = "ensureUserExists",
                            ![i].merged = <<>>,
                            ![i].userText = sttText,
                            ![i].calls = Append(@, "ensureUserExists")]
            /\ UNCHANGED <<isProcessingAudio, finished>>
    /\ UNCHANGED <<volumeBuffers, intakeRest, ttsVars>>

\* the call awaited after each of the first three calls of handleUserMessage
nextSetupCall(pc) ==
    CASE pc = "ensureUserExists" -> "composeState"
      [] pc = "composeState" -> "createMemory"
      [] pc = "createMemory" -> "updateRecentMessageState"

\* ensureUserExists, composeState or createMemory resolves (lines 471-507)
SetupResolves(i) ==
    /\ i \in DOMAIN procs
    /\ procs[i].pc \in {"ensureUserExists", "composeState", "createMemory"}
    /\ ProcCalls(i, nextSetupCall(procs[i].pc))
    /\ UNCHANGED <<volumeBuffers, intakeRest, ttsVars>>

\* the decision without the name test of lines 639-644
respondDecisionNoNameTest(userText) ==
    IF shouldIgnore(userText) THEN "ignored" ELSE "generateShouldRespond"

\* lines 509-529 with 635-660: what handleUserMessage does once the state is
\* updated: "" for the ignore filter, else the call it awaits next
respondDecision(userText) ==
    IF shouldIgnore(userText) THEN "ignored"
    ELSE IF mentionsName(userText) THEN "generateMessageResponse"
    ELSE "generateShouldRespond"

\* updateRecentMessageState resolves
StateUpdated(i) ==
    /\ i \in DOMAIN procs
    /\ procs[i].pc = "updateRecentMessageState"
    /\ IF respondDecision(procs[i].userText) = "ignored"
       THEN ProcEnds(i, "ignored")
       ELSE ProcCalls(i, respondDecision(procs[i].userText))
    /\ UNCHANGED <<volumeBuffers, intakeRest, ttsVars>>

\* generateShouldRespond resolves (lines 656-675, 515-529)
Classified(i, response) ==
    /\ i \in DOMAIN procs
    /\ procs[i].pc = "generateShouldRespond"
    /\ IF respondVerdict(response)
       THEN ProcCalls(i, "generateMessageResponse")
       ELSE ProcEnds(i, "declined")
    /\ UNCHANGED <<volumeBuffers, intakeRest, ttsVars>>

\* generateMessageResponse resolves (lines 558-578); writing the source
\* field of a null response throws
Generated(i, response) ==
    /\ i \in DOMAIN procs
    /\ procs[i].pc = "generateMessageResponse"
    /\ IF response.isNull
       THEN ProcEnds(i, "threw")
       ELSE /\ procs' = [procs EXCEPT
                            ![i].pc = "databaseAdapter.log",
                            ![i].reply = response.text,
                            ![i].calls = Append(@, "databaseAdapter.log")]
            /\ UNCHANGED <<isProcessingAudio, finished>>
    /\ UNCHANGED <<volumeBuffers, intakeRest, ttsVars>>

\* line 544: responseMemory.content.text?.trim()
replyOf(text) == IF text = NullText THEN NullText ELSE trim(text)

\* the test of line 545 taken as a test for null
truthyNotNull(text) == text # NullText

\* line 545
truthy(text) == text # NullText /\ text # <<>>

\* the reply memory created without the test of line 545
ResponseLoggedNoTest(i) ==
    /\ i \in DOMAIN procs
    /\ procs[i].pc = "databaseAdapter.log"
    /\ procs' = [procs EXCEPT
                    ![i].pc = "createMemoryReply",
                    ![i].reply = replyOf(@),
                    ![i].calls = Append(@, "createMemoryReply")]
    /\ UNCHANGED <<isProcessingAudio, finished>>
    /\ UNCHANGED <<volumeBuffers, intakeRest, ttsVars>>

\* databaseAdapter.log resolves (lines 573-581, 531-549)
ResponseLogged(i) ==
    /\ i \in DOMAIN procs
    /\ procs[i].pc = "databaseAdapter.log"
    /\ IF truthy(replyOf(procs[i].reply))
       THEN /\ procs' = [procs EXCEPT
                            ![i].pc = "createMemoryReply",
                            ![i].reply = replyOf(@),
                            ![i].calls = Append(@, "createMemoryReply")]
            /\ UNCHANGED <<isProcessingAudio, finished>>
       ELSE ProcEnds(i, "noReply")
    /\ UNCHANGED <<volumeBuffers, intakeRest, ttsVars>>

\* line 382
noReply(response) ==
    response = NullText \/ Len(response) = 0 \/ trim(response) = <<>>

\* createMemory of the reply resolves: handleUserMessage returns the reply
\* and processAudio hands it to speakText (lines 546-549, 382-408)
ReplyPersisted(i) ==
    /\ i \in DOMAIN procs
    /\ procs[i].pc = "createMemoryReply"
    /\ SpeakAllowed
    /\ IF noReply(procs[i].reply)
       THEN /\ ProcEnds(i, "noReply")
            /\ UNCHANGED <<volumeBuffers, ttsVars>>
       ELSE /\ ProcEnds(i, "spoke")
            /\ volumeBuffers' = NoChunks
            /\ SetTts(speakText(TtsState, procs[i].reply))
    /\ UNCHANGED intakeRest

\* an awaited call of the pipeline rejects: catch and finally of processAudio
\* (lines 396-408)
ProcThrows(i) ==
    /\ i \in DOMAIN procs
    /\ ProcEnds(i, "threw")
    /\ UNCHANGED <<volumeBuffers, intakeRest, ttsVars>>

(***************************************************************************)
(* The plugin under every interleaving of its events, with one speaker     *)
(***************************************************************************)
Speakers == {"u1"}
TtsTexts == {<<"a">>}
SttTexts == {NullText, <<"h", "e", "y">>}
Classes == {"RESPOND", "IGNORE"}
Responses == {[isNull |-> TRUE, text |-> NullText],
              [isNull |-> FALSE, text |-> <<"a", " ">>]}
PcmLens == {1000}
ExitCodes == {0, 1}

vars == plugVars

Init == InitPlugin /\ keepHistory = {}

PipelineStep(texts, classes, responses) ==
    \E i \in DOMAIN procs :
        \/ \E x \in texts : Transcribed(i, x)
        \/ SetupResolves(i)
        \/ StateUpdated(i)
        \/ \E c \in classes : Classified(i, c)
        \/ \E r \in responses : Generated(i, r)
        \/ ResponseLogged(i)
        \/ ReplyPersisted(i)
        \/ ProcThrows(i)

Next ==
    \/ \E u \in Speakers, f \in Frames : OnAudioData(u, f)
    \/ \E t \in timers : TimerFires(t)
    \/ PipelineStep(SttTexts, Classes, Responses)
    \/ \E x \in TtsTexts : SpeakText(x)
    \/ \E i \in DOMAIN drains, ok \in BOOLEAN : TtsResolves(i, ok)
    \/ \E i \in DOMAIN drains, c \in ExitCodes, n \in PcmLens :
          FfmpegCloses(i, c, n)
    \/ \E i \in DOMAIN drains : FrameDelayElapses(i)
    \/ Cleanup

Spec == Init /\ [][Next]_vars

\* the plugin with every speaker and no caller of speakText but processAudio
NextSpeakers ==
    \/ \E u \in Users, f \in Frames : OnAudioData(u, f)
    \/ \E t \in timers : TimerFires(t)
    \/ PipelineStep(SttTexts, Classes, Responses)
    \/ \E i \in DOMAIN drains, ok \in BOOLEAN : TtsResolves(i, ok)
    \/ \E i \in DOMAIN drains, c \in ExitCodes, n \in PcmLens :
          FfmpegCloses(i, c, n)
    \/ \E i \in DOMAIN drains : FrameDelayElapses(i)
    \/ Cleanup

SpecSpeakers == Init /\ [][NextSpeakers]_vars

(***************************************************************************)
(* Properties of the whole plugin                                          *)
(***************************************************************************)
Streaming == {i \in DOMAIN drains : drains[i].pc = "delay"}

\* the frame is evaluated by the interruption detector and its rolling
\* average exceeds the threshold
Interrupts(userId, samples) ==
    /\ ~isProcessingAudio
    /\ maxVal(samples) >= silenceThreshold
    /\ isSpeaking
    /\ avgVolumeExceeds(pushVolume(volumeBuffers[userId],
                                   maxAmplitude(samples)))

\* C1: at most one processAudio is past its guard, it holds the processing
\* flag, at most one transcription is pending, and a processAudio called
\* while the flag is set changes neither the buffers nor the flag.
SingleFlight ==
    /\ [](/\ Cardinality(DOMAIN procs) <= 1
          /\ procs # <<>> => isProcessingAudio)
    /\ [][\A t \in timers :
            (isProcessingAudio /\ TimerFires(t)) =>
                UNCHANGED <<pcmBuffers, isProcessingAudio, procs>>]_vars

\* a flush awaits its transcription while another silence timer is live
SingleFlightWitness ==
    /\ timers # {}
    /\ \E i \in DOMAIN procs : procs[i].pc = "transcribe"

\* C2: at most one processTtsQueue loop is in flight at any time.
NoOverlap == Cardinality(DOMAIN drains) <= 1

\* C3: when a frame drives the rolling average over the threshold while a
\* loop streams an item, isSpeaking becomes false and the token of every
\* item being streamed is aborted; and no further frame of an item is pushed
\* once its token is aborted.
InterruptionAborts ==
    /\ [][\A u \in Users, f \in Frames :
            (Streaming # {} /\ Interrupts(u, f) /\ OnAudioData(u, f)) =>
                /\ ~isSpeaking'
                /\ Streaming \subseteq abortedSignals']_vars
    /\ [][\A i \in Streaming :
            i \in abortedSignals =>
                ~(i \in DOMAIN drains' /\ drains'[i].offset > drains[i].offset)
         ]_vars

\* C5: a frame whose peak absolute amplitude is below silenceThreshold
\* leaves the whole state unchanged.
SilenceDropped ==
    [][\A u \in Users, f \in Frames :
          (maxVal(f) < silenceThreshold /\ OnAudioData(u, f)) =>
              UNCHANGED plugVars]_vars

\* audio is buffered and a silence timer is pending when frames arrive
SilenceDroppedWitness ==
    /\ ~isProcessingAudio
    /\ \E t \in timers : pcmBuffers[t.userId] # <<>>

(***************************************************************************)
(* The response pipeline over every short transcription                    *)
(***************************************************************************)
TextAlphabet == {"B", "o", "k", "K", "s", "e", "x", " "}
AllTexts == UNION {[1..n -> TextAlphabet] : n \in 0..MaxTextLen}
AllClasses == {"RESPOND", "IGNORE", "STOP", "MAYBE"}
AllResponses == {[isNull |-> TRUE, text |-> NullText],
                 [isNull |-> FALSE, text |-> NullText],
                 [isNull |-> FALSE, text |-> <<>>],
                 [isNull |-> FALSE, text |-> <<" ">>],
                 [isNull |-> FALSE, text |-> <<"a", " ">>]}

InitText == InitPlugin /\ keepHistory = {"finished"}

NextText ==
    \/ \E u \in Speakers : OnAudioData(u, LoudFrame)
    \/ \E t \in timers : TimerFires(t)
    \/ PipelineStep(AllTexts \cup {NullText}, AllClasses, AllResponses)

SpecText == InitText /\ [][NextText]_vars

\* the processAudio invocations in flight and the one that returned last
Utterances == {procs[i] : i \in DOMAIN procs}
                  \cup {finished[k] : k \in 1..Len(finished)}

Called(r, call) == \E k \in 1..Len(r.calls) : r.calls[k] = call

\* the invocation went through _shouldIgnore
Filtered(r) ==
    /\ Called(r, "updateRecentMessageState")
    /\ r.pc # "updateRecentMessageState"
    /\ ~(r.pc = "threw" /\ r.calls[Len(r.calls)] = "updateRecentMessageState")

ContainsName(text) == includes(toLowerCase(text), <<"b", "o">>)

ContainsListed(text) ==
    \E word \in loseInterestWords \cup ignoreWords :
        includes(toLowerCase(text), word)

\* C7 as stated: every text that contains the name goes to generation
\* without a classifier call.
NameAlwaysGenerates ==
    \A r \in Utterances :
        (ContainsName(r.userText) /\ Filtered(r)) =>
            /\ ~Called(r, "generateShouldRespond")
            /\ Called(r, "generateMessageResponse")

\* C7 as amended: a text that contains the name never reaches the
\* classifier, and goes to generation unless the ignore filter dropped it.
NameShortCircuit ==
    \A r \in Utterances :
        ContainsName(r.userText) =>
            /\ ~Called(r, "generateShouldRespond")
            /\ (Filtered(r) /\ r.pc # "ignored") =>
                   Called(r, "generateMessageResponse")

\* a text with the name awaits the generation
NameShortCircuitWitness ==
    \E r \in Utterances :
        /\ ContainsName(r.userText)
        /\ r.pc = "generateMessageResponse"

FlagReleased ==
    /\ procs = <<>> => ~isProcessingAudio
    /\ \A k \in 1..Len(finished) : ~isProcessingAudio

\* an invocation ended by an exception and a later frame was buffered
FlagReleasedWitness ==
    /\ \E k \in 1..Len(finished) :
           /\ finished[k].pc = "threw"
           /\ finished[k].calls[Len(finished[k].calls)] = "createMemoryReply"
    /\ \E u \in Users : pcmBuffers[u] # <<>>

(***************************************************************************)
(* The WAV encoder over short inputs                                       *)
(***************************************************************************)
Int16Values == {-32768, -1, 0, 1, 258, 32767}
PcmInputs == UNION {[1..n -> Int16Values] : n \in 0..MaxWavLen}
SampleRates == {8000, 48000, 192000}

\* a call of convertPcmToWavInMemory and the buffer it resolves with
ConvertPcmToWav(pcmData, sampleRate) ==
    /\ wav' = [pcmData |-> pcmData, sampleRate |-> sampleRate,
               buffer |-> convertPcmToWavInMemory(pcmData, sampleRate)]
    /\ UNCHANGED <<pcmBuffers, volumeBuffers, ttsQueue, isSpeaking,
                   isProcessingAudio, userSpeakingTimer, ttsAbortController,
                   elevenLabsApiKey, timers, abortedSignals, procs, drains,
                   janus, enqueued, failedItems, finished, keepHistory,
                   instaVars>>

InitWav == InitPlugin /\ keepHistory = {}

NextWav ==
    \E pcmData \in PcmInputs, sampleRate \in SampleRates :
        ConvertPcmToWav(pcmData, sampleRate)

SpecWav == InitWav /\ [][NextWav]_vars

\* a WAV parser: little-endian fields read back from the bytes
readUint16(bytes, offset) == bytes[offset + 1] + 256 * bytes[offset + 2]

readUint32(bytes, offset) ==
    bytes[offset + 1] + 256 * bytes[offset + 2] + 65536 * bytes[offset + 3]
        + 16777216 * bytes[offset + 4]

readInt16(bytes, offset) ==
    LET u == readUint16(bytes, offset)
    IN  IF u >= 32768 THEN u - 65536 ELSE u

readTag(bytes, offset) == SubSeq(bytes, offset + 1, offset + 4)

\* C6: the buffer of N samples at rate R has 44 + 2N bytes, the header
\* fields of a mono 16-bit PCM WAV file of rate R and data size 2N, all
\* little-endian, and then the N samples in order as little-endian int16.
WavRoundTrip ==
    wav # NoWav =>
        LET b == wav.buffer
            N == Len(wav.pcmData)
            R == wav.sampleRate
        IN  /\ Len(b) = 44 + 2 * N
            /\ \A k \in 1..Len(b) : b[k] \in 0..255
            /\ readTag(b, 0) = <<82, 73, 70, 70>>
            /\ readUint32(b, 4) = 36 + 2 * N
            /\ readTag(b, 8) = <<87, 65, 86, 69>>
            /\ readTag(b, 12) = <<102, 109, 116, 32>>
            /\ readUint32(b, 16) = 16
            /\ readUint16(b, 20) = 1
            /\ readUint16(b, 22) = 1
            /\ readUint32(b, 24) = R
            /\ readUint32(b, 28) = 2 * R
            /\ readUint16(b, 32) = 2
            /\ readUint16(b, 34) = 16
            /\ readTag(b, 36) = <<100, 97, 116, 97>>
            /\ readUint32(b, 40) = 2 * N
            /\ \A i \in 0..(N - 1) :
                   readInt16(b, 44 + 2 * i) = wav.pcmData[i + 1]

\* two samples whose bytes differ were encoded
WavRoundTripWitness ==
    /\ wav.buffer # <<>>
    /\ Len(wav.pcmData) = 2
    /\ wav.pcmData[1] = -32768
    /\ wav.pcmData[2] = 258

(***************************************************************************)
(* The speech queue alone: callers of speakText and the completions of     *)
(* synthesis, transcoding and frame delays                                 *)
(***************************************************************************)
QueueTexts == << <<"a">>, <<"b">>, <<"c">>, <<"d">>, <<"e">> >>
QueuePcmLens == {480, 1000}

\* the k-th call of speakText passes the k-th text, or the empty string
NextQueueTexts ==
    IF Len(enqueued) < Len(QueueTexts)
    THEN {QueueTexts[Len(enqueued) + 1], <<>>}
    ELSE {<<>>}

InitQueue ==
    /\ InitPlugin
    /\ elevenLabsApiKey
    /\ keepHistory = {"janus", "enqueued", "failedItems"}

NextQueue ==
    \/ \E x \in NextQueueTexts : SpeakText(x)
    \/ \E i \in DOMAIN drains : TtsResolves(i, TRUE)
    \/ \E i \in DOMAIN drains, n \in QueuePcmLens : FfmpegCloses(i, 0, n)
    \/ \E i \in DOMAIN drains : FrameDelayElapses(i)

SpecQueue == InitQueue /\ [][NextQueue]_vars

InitTts ==
    /\ InitPlugin
    /\ keepHistory = {"janus", "enqueued", "failedItems"}

NextTts ==
    \/ \E x \in NextQueueTexts : SpeakText(x)
    \/ \E i \in DOMAIN drains, ok \in BOOLEAN : TtsResolves(i, ok)
    \/ \E i \in DOMAIN drains, c \in ExitCodes, n \in QueuePcmLens :
          FfmpegCloses(i, c, n)
    \/ \E i \in DOMAIN drains : FrameDelayElapses(i)

SpecTts == InitTts /\ [][NextTts]_vars

\* position of a text in the calls of speakText (texts are distinct)
EnqueuedAt(text) ==
    CHOOSE k \in 1..Len(enqueued) : enqueued[k] = text

Failed(text) == \E k \in 1..Len(failedItems) : failedItems[k] = text

Pushed(text) == \E j \in 1..Len(janus) : janus[j].text = text

\* the frame after entry e of the same item exists
HasNextFrame(e) == e.offset + 2 * FRAME_SIZE <= e.pcm

\* the frames pushed so far are whole items in the order of the calls: each
\* item starts at offset 0 after the last frame of an earlier call's item,
\* and its frames follow one another
InOrder ==
    \A j \in 1..Len(janus) :
        /\ \E k \in 1..Len(enqueued) : enqueued[k] = janus[j].text
        /\ IF j = 1 THEN janus[j].offset = 0
           ELSE IF janus[j].text = janus[j - 1].text
                THEN /\ janus[j].offset = janus[j - 1].offset + FRAME_SIZE
                     /\ janus[j].pcm = janus[j - 1].pcm
                ELSE /\ janus[j].offset = 0
                     /\ ~HasNextFrame(janus[j - 1])
                     /\ EnqueuedAt(janus[j - 1].text)
                            < EnqueuedAt(janus[j].text)

\* no loop is in flight
Quiescent == drains = <<>>

\* C4: with every synthesis succeeding and no interruption, one item is
\* handled at a time, frames reach the transport item by item in the order
\* of the speakText calls, and when the loop has returned every text was
\* streamed whole, the queue is empty and isSpeaking is false.
QueueOrder ==
    /\ Cardinality(DOMAIN drains) <= 1
    /\ isSpeaking <=> ~Quiescent
    /\ InOrder
    /\ Quiescent =>
          /\ ttsQueue = <<>>
          /\ ~isSpeaking
          /\ \A k \in 1..Len(enqueued) :
                 enqueued[k] # <<>> => Pushed(enqueued[k])
          /\ janus # <<>> => ~HasNextFrame(janus[Len(janus)])

\* a, b and c were enqueued and streamed, one of them in two frames
QueueOrderWitness ==
    /\ Quiescent
    /\ enqueued = <<QueueTexts[1], QueueTexts[2], QueueTexts[3]>>
    /\ Len(janus) > 3

\* C9: no frame of an item whose synthesis or transcoding failed is pushed,
\* the items behind it are streamed whole and in order, and when the loop
\* has returned the queue is empty, isSpeaking is false and every text was
\* either streamed or failed.
FailureIsolated ==
    /\ \A k \in 1..Len(failedItems) : ~Pushed(failedItems[k])
    /\ InOrder
    /\ Quiescent =>
          /\ ttsQueue = <<>>
          /\ ~isSpeaking
          /\ \A k \in 1..Len(enqueued) :
                 enqueued[k] # <<>> =>
                     (Pushed(enqueued[k]) <=> ~Failed(enqueued[k]))

\* the second of three items failed and the third was streamed after it
FailureIsolatedWitness ==
    /\ Quiescent
    /\ elevenLabsApiKey
    /\ enqueued = <<QueueTexts[1], QueueTexts[2], QueueTexts[3]>>
    /\ failedItems = <<QueueTexts[2]>>
    /\ Pushed(QueueTexts[1])
    /\ Pushed(QueueTexts[3])

(***************************************************************************)
(* The speech queue and its cancellation tokens under every interleaving   *)
(***************************************************************************)
\* some frame of some speaker takes the interruption branch in this step
Interrupted ==
    \E u \in Users, f \in Frames : Interrupts(u, f) /\ OnAudioData(u, f)

\* C11 as stated: whenever isSpeaking is false the queue is empty.
IdleQueueEmpty == ~isSpeaking => ttsQueue = <<>>

\* C11 as amended: a step that clears isSpeaking leaves the queue empty
\* unless it is a barge-in interruption.
ClearedOnlyWhenEmpty ==
    [][(isSpeaking /\ ~isSpeaking' /\ ~Interrupted) => ttsQueue' = <<>>]_vars

\* a loop streams an item while another text is pending
ClearedOnlyWhenEmptyWitness ==
    /\ isSpeaking
    /\ ttsQueue # <<>>
    /\ Streaming # {}

\* C12: the tokens of the items in flight are at most one, the field holds
\* exactly that token, and the field is cleared only by a step of the loop
\* whose item's token it holds.
OneLiveToken ==
    /\ [](/\ Cardinality(DOMAIN drains) <= 1
          /\ \A i \in DOMAIN drains : ttsAbortController = drains[i].signal
          /\ ttsAbortController # NoToken =>
                 ttsAbortController \in DOMAIN drains)
    /\ [][(ttsAbortController # NoToken /\ ttsAbortController' = NoToken) =>
             /\ ttsAbortController \in DOMAIN drains
             /\ \/ ttsAbortController \notin DOMAIN drains'
                \/ drains'[ttsAbortController] # drains[ttsAbortController]
         ]_vars

(***************************************************************************)
(* The response pipeline: transcription results and classifier answers     *)
(***************************************************************************)
\* the transcription results that are null, empty or made of spaces only
BlankTexts == {NullText} \cup {[k \in 1..n |-> " "] : n \in 0..MaxTextLen}

\* C13: when transcribe resolves with a blank result the processAudio ends
\* there: it made no call but transcribe, it makes none later, the flag is
\* released and nothing reaches the speech queue.
NoSpeechEnds ==
    [][\A i \in DOMAIN procs, x \in BlankTexts :
          Transcribed(i, x) =>
              /\ procs[i].calls = <<"transcribe">>
              /\ procs' = Remove(procs, i)
              /\ finished' = <<[procs[i] EXCEPT !.pc = "noSpeech"]>>
              /\ ~isProcessingAudio'
              /\ UNCHANGED ttsVars]_vars

\* a processAudio ended on a blank transcription
NoSpeechEndsWitness ==
    \E k \in 1..Len(finished) :
        /\ finished[k].pc = "noSpeech"
        /\ finished[k].calls = <<"transcribe">>

\* C14: generation follows the classifier only on the answer RESPOND; on
\* every other answer the processAudio ends with no generation call and
\* nothing reaches the speech queue; and a text without the name reaches
\* generation only through the classifier.
RespondOnly ==
    /\ [](\A r \in Utterances :
            (/\ r.userText # NullText
             /\ ~ContainsName(r.userText)
             /\ Called(r, "generateMessageResponse")) =>
                Called(r, "generateShouldRespond"))
    /\ [][\A i \in DOMAIN procs, c \in AllClasses :
            Classified(i, c) =>
                IF c = "RESPOND"
                THEN /\ i \in DOMAIN procs'
                     /\ procs'[i].pc = "generateMessageResponse"
                ELSE /\ procs' = Remove(procs, i)
                     /\ finished' = <<[procs[i] EXCEPT !.pc = "declined"]>>
                     /\ ~Called(procs[i], "generateMessageResponse")
                     /\ UNCHANGED ttsVars]_vars

\* a text without the name awaits the generation after the classifier
RespondOnlyWitness ==
    \E r \in Utterances :
        /\ ~ContainsName(r.userText)
        /\ Called(r, "generateShouldRespond")
        /\ r.pc = "generateMessageResponse"

(***************************************************************************)
(* Audio intake, the flush and the silence timer                           *)
(***************************************************************************)
\* C15: while isProcessingAudio is true a frame of any speaker leaves the
\* whole state unchanged.
IntakeGated ==
    [][\A u \in Users, f \in Frames :
          (isProcessingAudio /\ OnAudioData(u, f)) =>
              UNCHANGED plugVars]_vars

\* a flush is in progress while the plugin is speaking
IntakeGatedWitness ==
    /\ isProcessingAudio
    /\ isSpeaking
    /\ procs # <<>>

\* C16: when a silence timer fires, the flush takes exactly the chunks of
\* the speaker whose frame armed that timer, and no speaker has a chunk
\* buffered afterwards.
FlushTakesOneClearsAll ==
    [][\A t \in timers :
          TimerFires(t) =>
              /\ pcmBuffers' = NoChunks
              /\ (~isProcessingAudio /\ pcmBuffers[t.userId] # <<>>) =>
                     \E i \in DOMAIN procs' \ DOMAIN procs :
                         /\ procs'[i].userId = t.userId
                         /\ procs'[i].pc = "transcribe"
                         /\ procs'[i].merged = Flatten(pcmBuffers[t.userId])
         ]_vars

\* two speakers have audio buffered when the timer of one of them is live
FlushTakesOneClearsAllWitness ==
    /\ ~isProcessingAudio
    /\ \E t \in timers :
           /\ pcmBuffers[t.userId] # <<>>
           /\ \E u \in Users \ {t.userId} : pcmBuffers[u] # <<>>

\* C17: at most one silence timer is armed at any time.
OneTimer == Cardinality(timers) <= 1

(***************************************************************************)
(* The volume windows during a playback                                    *)
(*                                                                         *)
(* The runs start while the synthesis request of a text is pending, after  *)
(* the speaker has sent quiet frames during the playback and a silence     *)
(* timer left armed by cleanup has flushed the chunk buffers: the window   *)
(* of the speaker holds one peak of 70 followed by peaks of 60.            *)
(***************************************************************************)
QuietFirst == <<70, 0>>
QuietFrame == <<60, 0>>
NewFrame == <<80, 0>>
WindowFrames == {NewFrame, <<49>>, <<-32768>>, <<-32768, 50>>}

\* the window after n quiet frames of a playback
QuietWindow(n) ==
    [k \in 1..n |->
        IF k = 1 THEN maxAmplitude(QuietFirst) ELSE maxAmplitude(QuietFrame)]

WindowLens == {0, 1, VOLUME_WINDOW_SIZE - 1, VOLUME_WINDOW_SIZE}

InitWindow ==
    /\ pcmBuffers = NoChunks
    /\ \E n \in WindowLens :
           volumeBuffers = [NoChunks EXCEPT !["u1"] = QuietWindow(n)]
    /\ ttsQueue = <<>>
    /\ isSpeaking = TRUE
    /\ isProcessingAudio = FALSE
    /\ userSpeakingTimer = NoTimer
    /\ ttsAbortController = 1
    /\ elevenLabsApiKey = TRUE
    /\ timers = {}
    /\ abortedSignals = {}
    /\ procs = <<>>
    /\ drains = <<[pc |-> "elevenLabsTts", text |-> <<"a">>, signal |-> 1,
                   pcm |-> 0, offset |-> 0]>>
    /\ janus = <<>>
    /\ enqueued = <<>>
    /\ failedItems = <<>>
    /\ finished = <<>>
    /\ wav = NoWav
    /\ InitInstagram
    /\ keepHistory = {}

NextWindow ==
    \/ \E u \in Users, f \in WindowFrames : OnAudioData(u, f)
    \/ \E t \in timers : TimerFires(t)
    \/ \E i \in DOMAIN drains, ok \in BOOLEAN : TtsResolves(i, ok)
    \/ \E i \in DOMAIN drains, c \in ExitCodes, n \in PcmLens :
          FfmpegCloses(i, c, n)
    \/ \E i \in DOMAIN drains : FrameDelayElapses(i)

SpecWindow == InitWindow /\ [][NextWindow]_vars

\* C18: every value of every volume window is a peak between 0 and 1
\* (between 0 and 32768 on the scale of the samples).
PeaksNormalized ==
    \A u \in Users : \A k \in 1..Len(volumeBuffers[u]) :
        /\ volumeBuffers[u][k] >= 0
        /\ volumeBuffers[u][k] <= INT16_SCALE

\* the frame is evaluated by the interruption detector
Evaluated(samples) ==
    /\ ~isProcessingAudio
    /\ maxVal(samples) >= silenceThreshold
    /\ isSpeaking

\* the window of the last VOLUME_WINDOW_SIZE values of w followed by v
MostRecent(w, v) ==
    LET all == w \o <<v>>
    IN  IF Len(all) <= VOLUME_WINDOW_SIZE THEN all
        ELSE SubSeq(all, Len(all) - VOLUME_WINDOW_SIZE + 1, Len(all))

\* C19: no window holds more than VOLUME_WINDOW_SIZE values, and a frame
\* evaluated by the detector leaves the speaker's window holding the most
\* recent values in arrival order (or empty, when it interrupts).
WindowBounded ==
    /\ [](\A u \in Users : Len(volumeBuffers[u]) <= VOLUME_WINDOW_SIZE)
    /\ [][\A u \in Users, f \in WindowFrames :
            (Evaluated(f) /\ OnAudioData(u, f)) =>
                /\ \A o \in Users \ {u} : volumeBuffers'[o] = volumeBuffers[o]
                /\ \/ volumeBuffers'[u] =
                          MostRecent(volumeBuffers[u], maxAmplitude(f))
                   \/ /\ volumeBuffers'[u] = <<>>
                      /\ avgVolumeExceeds(
                             MostRecent(volumeBuffers[u], maxAmplitude(f)))
         ]_vars

\* a push into a full window evicted the oldest peak
WindowBoundedWitness ==
    /\ Len(volumeBuffers["u1"]) = VOLUME_WINDOW_SIZE
    /\ volumeBuffers["u1"][1] = maxAmplitude(QuietFrame)
    /\ volumeBuffers["u1"][VOLUME_WINDOW_SIZE] = maxAmplitude(NewFrame)
    /\ pcmBuffers["u1"] # <<>>

(***************************************************************************)
(* Cancellation before the streaming of an item                            *)
(***************************************************************************)
\* the loops whose item is not streamed yet and whose token is aborted
AbortedBeforeStream ==
    {i \in DOMAIN drains : drains[i].pc # "delay" /\ i \in abortedSignals}

\* C20: an item whose token is aborted before its streaming starts is never
\* streamed, and the step that ends it makes its loop return with the queue
\* as it was.
AbortStopsDrain ==
    /\ [][\A i \in AbortedBeforeStream :
            ~(i \in DOMAIN drains' /\ drains'[i].pc = "delay")]_vars
    /\ [][\A i \in AbortedBeforeStream :
            (\/ TtsResolves(i, FALSE)
             \/ \E c \in ExitCodes, n \in PcmLens : FfmpegCloses(i, c, n)) =>
                /\ ttsQueue' = ttsQueue
                /\ DOMAIN drains' = DOMAIN drains \ {i}]_vars

(***************************************************************************)
(* The response pipeline: persistence of the turns                         *)
(***************************************************************************)
\* how many times the invocation made the call
Count(r, call) == Cardinality({k \in 1..Len(r.calls) : r.calls[k] = call})

\* a reply text that is not null and not made of spaces only
NonBlankReply(text) ==
    text # NullText /\ \E k \in 1..Len(text) : text[k] # " "

\* C21: the utterance is persisted at most once, and exactly once when it
\* was ignored, declined or answered; the reply is persisted at most once,
\* and once the generation was logged it is persisted exactly when the
\* generated text is not blank.
TurnsPersisted ==
    \A r \in Utterances :
        /\ Count(r, "createMemory") <= 1
        /\ r.pc \in {"ignored", "declined", "noReply", "spoke"} =>
               Count(r, "createMemory") = 1
        /\ Count(r, "createMemoryReply") <= 1
        /\ (Called(r, "databaseAdapter.log")
                /\ r.pc \in {"createMemoryReply", "noReply", "spoke"}) =>
               (Called(r, "createMemoryReply") <=> NonBlankReply(r.reply))

\* an utterance was answered
TurnsPersistedWitness ==
    \E k \in 1..Len(finished) :
        /\ finished[k].pc = "spoke"
        /\ Called(finished[k], "createMemory")
        /\ Called(finished[k], "createMemoryReply")

(***************************************************************************)
(* The enqueue step                                                        *)
(***************************************************************************)
\* C22: speakText appends the text; while isSpeaking is true it starts no
\* loop and changes nothing else; while isSpeaking is false it starts the
\* one loop, which awaits the synthesis of the text with isSpeaking true,
\* or has returned already when the text is empty or no key is configured.
\* A loop is in flight exactly while isSpeaking is true, and the frames
\* pushed are whole items in the order of the calls.
EnqueueStep ==
    /\ [](/\ isSpeaking <=> drains # <<>>
          /\ Cardinality(DOMAIN drains) <= 1
          /\ InOrder)
    /\ [][\A x \in NextQueueTexts :
            SpeakText(x) =>
                /\ enqueued' = Append(enqueued, x)
                /\ IF isSpeaking
                   THEN /\ ttsQueue' = Append(ttsQueue, x)
                        /\ UNCHANGED <<isSpeaking, drains,
                                       ttsAbortController, janus>>
                   ELSE IF x = <<>> \/ ~elevenLabsApiKey
                   THEN /\ drains' = <<>>
                        /\ ~isSpeaking'
                        /\ ttsQueue' = <<>>
                   ELSE /\ isSpeaking'
                        /\ ttsQueue' = <<>>
                        /\ Cardinality(DOMAIN drains') = 1
                        /\ \A i \in DOMAIN drains' :
                               /\ drains'[i].text = x
                               /\ drains'[i].pc = "elevenLabsTts"
                               /\ ttsAbortController' = i]_vars

\* a text enqueued during a playback waits behind the item being streamed
EnqueueStepWitness ==
    /\ isSpeaking
    /\ Streaming # {}
    /\ ttsQueue # <<>>
    /\ Len(enqueued) > 1
    /\ ttsQueue[Len(ttsQueue)] = enqueued[Len(enqueued)]

(***************************************************************************)
(* The interruption detector and the chunk buffers                         *)
(***************************************************************************)
\* C23: a frame evaluated by the interruption detector is appended to no
\* chunk buffer.
DetectorExclusive ==
    [][\A u \in Users, f \in WindowFrames :
          (Evaluated(f) /\ OnAudioData(u, f)) =>
              pcmBuffers' = pcmBuffers]_vars

\* the arithmetic mean of the values held exceeds SPEAKING_THRESHOLD
MeanExceeds(volumeBuffer) ==
    /\ volumeBuffer # <<>>
    /\ \A i \in 1..Len(volumeBuffer) : volumeBuffer[i] # NegInfinity
    /\ SumSeq(volumeBuffer) * SPEAKING_THRESHOLD_DEN
           > SPEAKING_THRESHOLD_NUM * INT16_SCALE * Len(volumeBuffer)

\* C24: a frame evaluated by the detector interrupts (clears the window of
\* the speaker and, when a controller is set, aborts it and clears
\* isSpeaking) exactly when the arithmetic mean of the values held after
\* the push exceeds SPEAKING_THRESHOLD.
MeanTriggers ==
    [][\A u \in Speakers, f \in Frames :
          (Evaluated(f) /\ OnAudioData(u, f)) =>
              LET held == MostRecent(volumeBuffers[u], maxAmplitude(f))
              IN  IF MeanExceeds(held)
                  THEN /\ volumeBuffers'[u] = <<>>
                       /\ ttsAbortController # NoToken =>
                              /\ ttsAbortController \in abortedSignals'
                              /\ ~isSpeaking'
                  ELSE /\ volumeBuffers'[u] = held
                       /\ UNCHANGED <<abortedSignals, isSpeaking>>]_vars

(***************************************************************************)
(* One utterance in the pipeline                                           *)
(***************************************************************************)
\* C25: isProcessingAudio and isSpeaking are never both true, and the
\* processing flag is never held while a drain loop is in flight.
OneUtterance ==
    /\ ~(isProcessingAudio /\ isSpeaking)
    /\ ~(isProcessingAudio /\ drains # <<>>)

(***************************************************************************)
(* Arrival order of the audio                                              *)
(***************************************************************************)
\* the frame is accepted by the intake
Accepted(samples) ==
    /\ ~isProcessingAudio
    /\ maxVal(samples) >= silenceThreshold

\* the samples of the chunks, chunk after chunk
RECURSIVE InArrivalOrder(_)
InArrivalOrder(chunks) ==
    IF chunks = <<>> THEN <<>>
    ELSE InArrivalOrder(SubSeq(chunks, 1, Len(chunks) - 1))
             \o chunks[Len(chunks)]

\* C26: an accepted frame is appended whole at the end of the chunks of its
\* speaker and changes no other buffer; the buffers change otherwise only
\* by being all emptied; and the PCM of the transcription request of a
\* flush is the samples of the chunks of the flushed speaker, chunk after
\* chunk: the frames accepted for the speaker since the buffers were last
\* emptied, in arrival order, each once.
ArrivalOrder ==
    /\ [][\A u \in Users, f \in WindowFrames :
            (Accepted(f) /\ OnAudioData(u, f)) =>
                pcmBuffers' = [pcmBuffers EXCEPT ![u] = Append(@, f)]]_vars
    /\ [][\/ pcmBuffers' = pcmBuffers
          \/ pcmBuffers' = NoChunks
          \/ \E u \in Users, f \in WindowFrames :
                 Accepted(f) /\ OnAudioData(u, f)]_vars
    /\ [][\A t \in timers :
            (TimerFires(t) /\ ~isProcessingAudio
                 /\ pcmBuffers[t.userId] # <<>>) =>
                \E i \in DOMAIN procs' \ DOMAIN procs :
                    /\ procs'[i].pc = "transcribe"
                    /\ procs'[i].merged =
                           InArrivalOrder(pcmBuffers[t.userId])]_vars

\* the transcription request of a flush carries two different frames
ArrivalOrderWitness ==
    \E i \in DOMAIN procs :
        /\ procs[i].pc = "transcribe"
        /\ procs[i].merged = NewFrame \o <<-32768, 50>>

(***************************************************************************)
(* Silence endpointing                                                     *)
(***************************************************************************)
\* C27: while isSpeaking is false an accepted frame leaves exactly one
\* silence timer live, the one it arms for its speaker; and the timer whose
\* firing starts a flush is the only live one, armed by the last accepted
\* frame.
SilenceEndpointing ==
    /\ [][\A u \in Users, f \in Frames :
            (Accepted(f) /\ ~isSpeaking /\ OnAudioData(u, f)) =>
                \E t \in timers' :
                    /\ timers' = {t}
                    /\ t.userId = u
                    /\ t.id = userSpeakingTimer']_vars
    /\ [][\A t \in timers :
            (TimerFires(t) /\ DOMAIN procs' # DOMAIN procs) =>
                /\ timers = {t}
                /\ t.id = userSpeakingTimer]_vars

(***************************************************************************)
(* The ignore filter at its length limits                                  *)
(*                                                                         *)
(* The transcriptions are a listed word, or none, placed at the start or   *)
(* at the end of a text filled with the letter z, which no listed word and *)
(* no name contains, at the lengths around the limits of the filter.       *)
(***************************************************************************)
FilterLens == {3, 7, 8, 49, 50}
BlockCores == {<<"s", "e", "x">>, <<"S", "e", "X">>}
FillerCores == {<<"o", "k">>, <<"K">>, <<"B", "o", "k">>}
PlainCores == {<<>>, <<"B", "o">>}

Fill(n) == [k \in 1..n |-> "z"]

\* the texts of length n that hold the word at the start or at the end
Placed(word, n) ==
    {Fill(n - Len(word)) \o word, word \o Fill(n - Len(word))}

FilterTexts ==
    UNION {Placed(word, n) :
               word \in BlockCores \cup FillerCores \cup PlainCores,
               n \in FilterLens}

NextFilter ==
    \/ \E u \in Speakers : OnAudioData(u, LoudFrame)
    \/ \E t \in timers : TimerFires(t)
    \/ PipelineStep(FilterTexts, Classes, Responses)

SpecFilter == InitText /\ [][NextFilter]_vars

\* the utterance ended at the ignore filter, before any classifier or
\* generation call
EndedIgnored(r) ==
    /\ r.pc = "ignored"
    /\ ~Called(r, "generateShouldRespond")
    /\ ~Called(r, "generateMessageResponse")

\* the utterance went on to the name test and the classifier
WentOn(r) ==
    /\ r.pc # "ignored"
    /\ \/ Called(r, "generateShouldRespond")
       \/ Called(r, "generateMessageResponse")

EmptyResult(text) == text = NullText \/ text = <<>>

\* the step ends invocation i with no reply: the flag is released, nothing
\* is enqueued for synthesis and no reply memory was created
EndsWithoutReply(i) ==
    /\ i \notin DOMAIN procs'
    /\ ~isProcessingAudio'
    /\ UNCHANGED ttsVars
    /\ \A k \in 1..Len(finished') :
           /\ ~Called(finished'[k], "createMemoryReply")
           /\ finished'[k].pc \in {"threw", "noReply"}

\* C29: a null generation result ends the invocation with no reply; a
\* result whose text is null or empty goes to the log call with nothing
\* enqueued, and the step after the log call ends the invocation with no
\* reply; the plugin goes on accepting frames afterwards.
NoResultNoReply ==
    /\ [][\A i \in DOMAIN procs, g \in AllResponses :
            Generated(i, g) =>
                /\ g.isNull => EndsWithoutReply(i)
                /\ (~g.isNull /\ EmptyResult(g.text)) =>
                       /\ i \in DOMAIN procs'
                       /\ procs'[i].pc = "databaseAdapter.log"
                       /\ procs'[i].reply = g.text
                       /\ UNCHANGED ttsVars]_vars
    /\ [][\A i \in DOMAIN procs :
            (/\ procs[i].pc = "databaseAdapter.log"
             /\ EmptyResult(procs[i].reply)
             /\ procs' # procs) => EndsWithoutReply(i)]_vars

\* after a generation with an empty text, a later frame was buffered
NoResultNoReplyWitness ==
    /\ \E k \in 1..Len(finished) :
           /\ finished[k].pc = "noReply"
           /\ finished[k].reply = <<>>
           /\ Called(finished[k], "databaseAdapter.log")
    /\ \E u \in Users : pcmBuffers[u] # <<>>
    /\ ~isProcessingAudio
    /\ ~isSpeaking

(***************************************************************************)
(* Frames received during a playback                                       *)
(***************************************************************************)
\* C30: an accepted frame received while isSpeaking is true is appended to
\* the chunks of its speaker and leaves no silence timer live: it cancels
\* the pending one and arms none, so the audio buffered during a playback
\* waits for a frame received while not speaking.
SpeakingFrameBuffered ==
    [][\A u \in Users, f \in Frames :
          (Evaluated(f) /\ OnAudioData(u, f)) =>
              /\ pcmBuffers' = [pcmBuffers EXCEPT ![u] = Append(@, f)]
              /\ timers' = {}]_vars

(***************************************************************************)
(* After cleanup                                                           *)
(*                                                                         *)
(* The runs start when cleanup has returned, after a frame of u1 armed a   *)
(* silence timer and a caller of speakText started the playback of a text: *)
(* the synthesis request is pending or the first frame was pushed.  The    *)
(* handle of that timer is one that no later setTimeout returns, and the   *)
(* text is one that no reply holds.                                         *)
(***************************************************************************)
OldHandle == MaxTimers + 1
OldText == <<"b">>
OldPlaybacks ==
    {[pc |-> "elevenLabsTts", text |-> OldText, signal |-> 1,
      pcm |-> 0, offset |-> 0],
     [pc |-> "delay", text |-> OldText, signal |-> 1,
      pcm |-> 1000, offset |-> 0]}

InitCleanup ==
    /\ pcmBuffers = NoChunks
    /\ volumeBuffers = NoChunks
    /\ ttsQueue = <<>>
    /\ isSpeaking = FALSE
    /\ isProcessingAudio = FALSE
    /\ userSpeakingTimer = NoTimer
    /\ ttsAbortController = 1
    /\ elevenLabsApiKey = TRUE
    /\ timers = {[id |-> OldHandle, userId |-> "u1"]}
    /\ abortedSignals = {}
    /\ procs = <<>>
    /\ \E d \in OldPlaybacks : drains = <<d>>
    /\ janus = <<>>
    /\ enqueued = <<>>
    /\ failedItems = <<>>
    /\ finished = <<>>
    /\ wav = NoWav
    /\ InitInstagram
    /\ keepHistory = {}

NextCleanup ==
    \/ \E u \in Speakers, f \in Frames : OnAudioData(u, f)
    \/ \E t \in timers : TimerFires(t)
    \/ PipelineStep(SttTexts, Classes, Responses)
    \/ \E i \in DOMAIN drains, ok \in BOOLEAN : TtsResolves(i, ok)
    \/ \E i \in DOMAIN drains, c \in ExitCodes, n \in PcmLens :
          FfmpegCloses(i, c, n)
    \/ \E i \in DOMAIN drains : FrameDelayElapses(i)

SpecCleanup == InitCleanup /\ [][NextCleanup]_vars

\* the step pushes a frame of the item of loop i to the transport
PushesFrame(i) ==
    /\ i \in DOMAIN drains'
    /\ drains'[i].pc = "delay"
    /\ drains'[i].text = drains[i].text
    /\ \/ drains[i].pc # "delay"
       \/ drains'[i].offset > drains[i].offset

\* C31: after cleanup returned, the silence timer armed before it starts no
\* flush, and the playback that was in flight pushes no further frame.
NoWorkAfterCleanup ==
    /\ [][\A t \in timers :
            (t.id = OldHandle /\ TimerFires(t)) => procs' = procs]_vars
    /\ [][\A i \in DOMAIN drains :
            drains[i].text = OldText => ~PushesFrame(i)]_vars

(***************************************************************************)
(* A barge-in with a text pending                                          *)
(*                                                                         *)
(* The runs start during the playback of a, enqueued before b, which is    *)
(* pending: the synthesis request of a is pending or its first frame was   *)
(* pushed.  Speaker u1 has sent five loud frames during the playback and a *)
(* silence timer left armed by cleanup before the two calls has flushed    *)
(* the chunk buffers, so the next loud frame of u1 interrupts.             *)
(***************************************************************************)
LoudWindow == [k \in 1..5 |-> maxAmplitude(LoudFrame)]

Playbacks ==
    {[drain |-> [pc |-> "elevenLabsTts", text |-> QueueTexts[1],
                 signal |-> 1, pcm |-> 0, offset |-> 0],
      janus |-> <<>>],
     [drain |-> [pc |-> "delay", text |-> QueueTexts[1],
                 signal |-> 1, pcm |-> 1000, offset |-> 0],
      janus |-> <<[text |-> QueueTexts[1], offset |-> 0, pcm |-> 1000]>>]}

InitBargeIn ==
    /\ pcmBuffers = NoChunks
    /\ volumeBuffers = [NoChunks EXCEPT !["u1"] = LoudWindow]
    /\ ttsQueue = <<QueueTexts[2]>>
    /\ isSpeaking = TRUE
    /\ isProcessingAudio = FALSE
    /\ userSpeakingTimer = NoTimer
    /\ ttsAbortController = 1
    /\ elevenLabsApiKey = TRUE
    /\ timers = {}
    /\ abortedSignals = {}
    /\ procs = <<>>
    /\ \E p \in Playbacks : drains = <<p.drain>> /\ janus = p.janus
    /\ enqueued = <<QueueTexts[1], QueueTexts[2]>>
    /\ failedItems = <<>>
    /\ finished = <<>>
    /\ wav = NoWav
    /\ InitInstagram
    /\ keepHistory = {"janus", "enqueued", "failedItems"}

NextBargeIn ==
    \/ \E u \in Speakers, f \in Frames : OnAudioData(u, f)
    \/ \E t \in timers : TimerFires(t)
    \/ \E x \in NextQueueTexts : SpeakText(x)
    \/ \E i \in DOMAIN drains, ok \in BOOLEAN : TtsResolves(i, ok)
    \/ \E i \in DOMAIN drains, c \in ExitCodes, n \in QueuePcmLens :
          FfmpegCloses(i, c, n)
    \/ \E i \in DOMAIN drains : FrameDelayElapses(i)

SpecBargeIn == InitBargeIn /\ [][NextBargeIn]_vars

\* C32: a barge-in interruption clears isSpeaking and leaves ttsQueue as it
\* was; the texts pending while isSpeaking is false leave the queue only in
\* a call of speakText; and that call appends its text behind them and
\* starts the loop on the oldest of them.
StaleItemsKept ==
    /\ [][\A u \in Speakers, f \in Frames :
            (Interrupts(u, f) /\ OnAudioData(u, f)) =>
                /\ ttsQueue' = ttsQueue
                /\ ~isSpeaking']_vars
    /\ [][(~isSpeaking /\ ttsQueue # <<>> /\ ttsQueue' # ttsQueue) =>
             \E x \in NextQueueTexts : SpeakText(x)]_vars
    /\ [][\A x \in NextQueueTexts :
            (SpeakText(x) /\ ~isSpeaking /\ ttsQueue # <<>>) =>
                /\ ttsQueue' = Tail(ttsQueue) \o <<x>>
                /\ \E i \in DOMAIN drains' \ DOMAIN drains :
                       drains'[i].text = Head(ttsQueue)]_vars

(***************************************************************************)
(* The frames of a playback                                                *)
(*                                                                         *)
(* The runs are those of a barge-in with a text pending, with transcoded   *)
(* lengths below, at and above whole numbers of frames.                    *)
(***************************************************************************)
StreamPcmLens == {FRAME_SIZE - 1, FRAME_SIZE, 1000, 3 * FRAME_SIZE}

NextStream ==
    \/ \E u \in Speakers, f \in Frames : OnAudioData(u, f)
    \/ \E t \in timers : TimerFires(t)
    \/ \E x \in NextQueueTexts : SpeakText(x)
    \/ \E i \in DOMAIN drains, ok \in BOOLEAN : TtsResolves(i, ok)
    \/ \E i \in DOMAIN drains, c \in ExitCodes, n \in StreamPcmLens :
          FfmpegCloses(i, c, n)
    \/ \E i \in DOMAIN drains : FrameDelayElapses(i)

SpecStream == InitBargeIn /\ [][NextStream]_vars

\* the token in the field is aborted
FieldAborted ==
    ttsAbortController # NoToken /\ ttsAbortController \in abortedSignals

\* the step pushes the frame of item d of loop i that starts at offset
PushesFrameAt(i, d, offset) ==
    /\ i \in DOMAIN drains'
    /\ drains'[i] = [d EXCEPT !.pc = "delay", !.offset = offset]
    /\ janus' = Append(janus, [text |-> d.text, offset |-> offset,
                               pcm |-> d.pcm])

\* the step ends the streaming of the item of loop i and pushes nothing
EndsStream(i) ==
    /\ i \in DOMAIN drains' => drains'[i].pc # "delay"
    /\ janus' = janus

\* the frames pushed for the text
FramesOf(text) == {j \in 1..Len(janus) : janus[j].text = text}

spacesVars == <<pcmBuffers, volumeBuffers, ttsQueue, isSpeaking,
                isProcessingAudio, userSpeakingTimer, ttsAbortController,
                elevenLabsApiKey, timers, abortedSignals, procs, drains,
                janus, enqueued, failedItems, finished, keepHistory, wav>>

MaxRetryArg == 3

DEFAULT_MAX_RETRIES == 3
DEFAULT_RETRY_DELAY == 5000
RATE_LIMIT_EXTRA == 30000

Errors == {"Error", "ETIMEDOUT", "rate_limit_error", "AggregateError"}
Results == {"r1", "r2"}
Outcomes == [ok : {TRUE}, value : Results] \cup [ok : {FALSE}, value : Errors]

isTimeout(error) == error = "ETIMEDOUT"
isRateLimit(error) == error = "rate_limit_error"

\* the delay after a failed attempt (lines 346-355)
adjustedDelay(r, error) ==
    IF isTimeout(error) \/ isRateLimit(error)
    THEN r.retryDelay * 2 ^ (r.attempt - 1)
         + (IF isRateLimit(error) THEN RATE_LIMIT_EXTRA ELSE 0)
    ELSE r.currentDelay

\* attempt === maxRetries (line 371)
lastAttempt(r) == r.attempt = r.maxRetries

\* a mutant of retryOperation: the loop counter starts at 0
retryOperationFromZero(fetch, maxRetries, retryDelay) ==
    [pc |-> IF fetch THEN "delay" ELSE "operation",
     fetch |-> fetch, maxRetries |-> maxRetries, retryDelay |-> retryDelay,
     attempt |-> 0, currentDelay |-> retryDelay, lastError |-> "undefined",
     result |-> "undefined", outcomes |-> <<>>]

\* the call up to its first await: the loop test, then the delay of a fetch
\* or the operation itself
retryOperation(fetch, maxRetries, retryDelay) ==
    [pc |-> IF maxRetries < 1 THEN "threw"
            ELSE IF fetch THEN "delay" ELSE "operation",
     fetch |-> fetch, maxRetries |-> maxRetries, retryDelay |-> retryDelay,
     attempt |-> 1, currentDelay |-> retryDelay, lastError |-> "undefined",
     result |-> "undefined", outcomes |-> <<>>]

\* a timeout of the call elapses: the one before an attempt is followed by
\* the operation, the one of the catch block by the next turn of the loop,
\* whose attempt > 1 waits again; past the loop the last error is thrown
afterDelay(r) ==
    IF r.pc = "delay" THEN [r EXCEPT !.pc = "operation"]
    ELSE [r EXCEPT !.pc = IF r.attempt + 1 <= r.maxRetries THEN "delay"
                          ELSE "threw",
                   !.attempt = @ + 1]

\* the pending operation settles
afterOperation(r, outcome) ==
    IF outcome.ok
    THEN [r EXCEPT !.pc = "returned", !.result = outcome.value,
                   !.outcomes = Append(@, outcome)]
    ELSE [r EXCEPT !.pc = IF lastAttempt(r) THEN "threw" ELSE "wait",
                   !.lastError = outcome.value,
                   !.currentDelay = adjustedDelay(r, outcome.value),
                   !.outcomes = Append(@, outcome)]

settled(r) == r.pc \in {"returned", "threw"}

\* a caller invokes retryOperation
CallRetryOperation(fetch, maxRetries) ==
    /\ retry = NoRetry
    /\ retry' = retryOperation(fetch, maxRetries, DEFAULT_RETRY_DELAY)
    /\ UNCHANGED <<spacesVars, interactionVars, postVars>>

RetryDelayElapses ==
    /\ retry.pc \in {"delay", "wait"}
    /\ retry' = afterDelay(retry)
    /\ UNCHANGED <<spacesVars, interactionVars, postVars>>

OperationSettles(outcome) ==
    /\ retry.pc = "operation"
    /\ retry' = afterOperation(retry, outcome)
    /\ UNCHANGED <<spacesVars, interactionVars, postVars>>

NextRetry ==
    \/ \E fetch \in BOOLEAN, maxRetries \in 1..MaxRetryArg :
           CallRetryOperation(fetch, maxRetries)
    \/ RetryDelayElapses
    \/ \E outcome \in Outcomes : OperationSettles(outcome)

\* every attempt and every delay of the call terminates
SpecRetry == Init /\ [][NextRetry]_vars /\ WF_vars(NextRetry)

failedAttempts(r) == {k \in 1..Len(r.outcomes) : ~r.outcomes[k].ok}

\* C35: retryOperation invokes the operation at most maxRetries times; it
\* returns the value of the first attempt that resolves, and no attempt
\* follows it; when all maxRetries attempts reject it throws the error of the
\* last one; and a call whose attempts and delays terminate settles.
RetryBounded ==
    /\ [](retry # NoRetry =>
            /\ Len(retry.outcomes) + (IF retry.pc = "operation" THEN 1 ELSE 0)
                   <= retry.maxRetries
            /\ \A k \in 1..Len(retry.outcomes) :
                   retry.outcomes[k].ok =>
                       /\ k = Len(retry.outcomes)
                       /\ retry.pc = "returned"
                       /\ retry.result = retry.outcomes[k].value
            /\ retry.pc = "returned" =>
                   /\ retry.outcomes # <<>>
                   /\ retry.outcomes[Len(retry.outcomes)].ok
            /\ Cardinality(failedAttempts(retry)) = retry.maxRetries =>
                   /\ retry.pc = "threw"
                   /\ retry.lastError
                          = retry.outcomes[Len(retry.outcomes)].value
            /\ retry.pc = "threw" =>
                   Cardinality(failedAttempts(retry)) = retry.maxRetries)
    /\ [][settled(retry) => retry' = retry]_vars
    /\ (retry # NoRetry) ~> settled(retry)

RetryBoundedWitness ==
    /\ retry # NoRetry
    /\ retry.pc = "threw"
    /\ retry.maxRetries = DEFAULT_MAX_RETRIES
    /\ Len(retry.outcomes) = DEFAULT_MAX_RETRIES
    /\ retry.outcomes[1].value = "rate_limit_error"
    /\ retry.outcomes[2].value = "ETIMEDOUT"
    /\ retry.lastError = "Error"
    /\ retry.currentDelay = 2 * DEFAULT_RETRY_DELAY

(***************************************************************************)
(* InstagramInteractionService: the activities of a cycle and its handlers *)
(*                                                                         *)
(* An activity is a record of the fields the handlers read: its type (the  *)
(* numeric types 2, 3 and 12 are written as strings), the id its cache key *)
(* is built from (comment pk, media id or thread id), has_liked_comment,   *)
(* whether its text or caption names the agent, and whether the post is    *)
(* the agent's own.                                                        *)
(***************************************************************************)
MaxLoops == 2
MaxCycles == 2
MaxActivities == 2

Activity(type, id, liked, mention, own) ==
    [type |-> type, id |-> id, has_liked_comment |-> liked,
     mention |-> mention, own |-> own]

\* the activities that are answered, and those that are not
ReplyActivities ==
    {Activity("2", "c1", FALSE, FALSE, FALSE),
     Activity("2", "c1", TRUE, FALSE, FALSE),
     Activity("12", "m1", FALSE, TRUE, FALSE),
     Activity("direct", "t1", FALSE, FALSE, FALSE),
     Activity("post", "m1", FALSE, TRUE, TRUE)}
OtherActivities ==
    {Activity("2", "c1", FALSE, FALSE, FALSE),
     Activity("3", "m1", FALSE, FALSE, FALSE),
     Activity("story", "s1", FALSE, FALSE, FALSE)}

ListsOf(activities) == UNION {[1..n -> activities] : n \in 0..MaxActivities}

\* the items of a direct thread: item_id, item_type === 'text', and whether
\* user_id is the agent's own
Message(item_id, text, own) ==
    [item_id |-> item_id, text |-> text, own |-> own]
Threads == {<<Message("d1", TRUE, FALSE)>>,
            <<Message("d3", TRUE, TRUE), Message("d4", FALSE, FALSE),
              Message("d1", TRUE, FALSE)>>}

\* the comments of a post: pk and has_liked_comment
Comment(pk, liked) == [pk |-> pk, has_liked_comment |-> liked]
CommentFeeds == {<<>>, <<Comment("c1", TRUE)>>}

\* the cache keys instagram-comment-<pk>, instagram-dm-<item_id>,
\* instagram-mention-<media_id> and instagram-like-<media_id>-<user_id>
commentKey(pk) == [prefix |-> "instagram-comment", id |-> pk]
messageKey(item_id) == [prefix |-> "instagram-dm", id |-> item_id]
mentionKey(media_id) == [prefix |-> "instagram-mention", id |-> media_id]
likeKey(media_id) == [prefix |-> "instagram-like", id |-> media_id]

\* a call of a handler on one item: the handler, the key of the item and,
\* for a comment, shouldRespond
Job(handler, key, shouldRespond) ==
    [handler |-> handler, key |-> key, shouldRespond |-> shouldRespond]
NoJob == Job("none", commentKey("none"), FALSE)

\* handleComment reads shouldRespond from the item (lines 728-729)
commentJob(item) ==
    Job("handleComment", commentKey(item.id),
        ~item.has_liked_comment \/ item.mention)

RECURSIVE MapSeq(_, _)
MapSeq(Op(_), s) ==
    IF s = <<>> THEN <<>> ELSE <<Op(Head(s))>> \o MapSeq(Op, Tail(s))

\* the messages of a thread that are answered: text items of other users
messageJobs(thread) ==
    LET answered(m) == m.text /\ ~m.own
        job(m) == Job("handleDirectMessage", messageKey(m.item_id), TRUE)
    IN  MapSeq(job, SelectSeq(thread, answered))

\* the comments of a post passed to handleComment, without the field
\* has_liked_comment (lines 661-672), then the mention of the caption
postJobs(activity, comments) ==
    LET passed(c) == activity.own \/ ~c.has_liked_comment
        job(c) == Job("handleComment", commentKey(c.pk), TRUE)
    IN  MapSeq(job, SelectSeq(comments, passed))
        \o (IF activity.mention
            THEN <<Job("handleMention", mentionKey(activity.id), TRUE)>>
            ELSE <<>>)

(***************************************************************************)
(* A processInteractions invocation past its guard is a record: pc is the  *)
(* await it is suspended at, todo the activities not yet handled, activity *)
(* the one being handled, inner the items of the current thread or post    *)
(* still to be handled, job the handler call in progress, purpose what the *)
(* pending retryOperation is for, and retry that call.                     *)
(***************************************************************************)
NoActivity == Activity("none", "none", FALSE, FALSE, FALSE)

NewCycle ==
    [pc |-> "ensureLogin", todo |-> <<>>, activity |-> NoActivity,
     inner |-> <<>>, job |-> NoJob, purpose |-> "none", retry |-> NoRetry]

\* a call of retryOperation with the default maxRetries and retryDelay
withRetry(c, purpose, fetch) ==
    [c EXCEPT !.pc = "retryOperation", !.purpose = purpose,
              !.retry = retryOperation(fetch, DEFAULT_MAX_RETRIES,
                                       DEFAULT_RETRY_DELAY)]

\* the handler of an activity up to its first await (switch of lines 168-199)
RECURSIVE nextStep(_)
nextStep(c) ==
    LET idle == [c EXCEPT !.job = NoJob, !.purpose = "none",
                          !.retry = NoRetry]
    IN  IF c.inner # <<>>
        THEN [idle EXCEPT !.pc = "cacheGet", !.job = Head(c.inner),
                          !.inner = Tail(c.inner)]
        ELSE IF c.todo = <<>>
        THEN [idle EXCEPT !.pc = "done", !.activity = NoActivity]
        ELSE LET a == Head(c.todo)
                 next == [idle EXCEPT !.todo = Tail(c.todo), !.activity = a]
             IN  CASE a.type = "direct" -> withRetry(next, "thread", TRUE)
                   [] a.type = "post" -> withRetry(next, "comments", TRUE)
                   [] a.type = "2" ->
                        [next EXCEPT !.pc = "cacheGet", !.job = commentJob(a)]
                   [] a.type = "3" ->
                        [next EXCEPT !.pc = "cacheGet",
                             !.job = Job("handleLike", likeKey(a.id), TRUE)]
                   [] a.type = "12" ->
                        [next EXCEPT !.pc = "cacheGet",
                             !.job = Job("handleMention", mentionKey(a.id),
                                         TRUE)]
                   [] OTHER -> nextStep(next)

\* the catch block of the handler in progress: handleDirectMessage gives up
\* the rest of its thread, the others only the item
afterCatch(c) ==
    nextStep([c EXCEPT !.inner =
                  IF c.job.handler = "handleDirectMessage" THEN <<>> ELSE @])

\* a mutant of afterCacheGet: the value read is ignored
afterCacheGetAlways(c, value, dryRun) ==
    IF c.job.handler = "handleLike" THEN [c EXCEPT !.pc = "cacheSet"]
    ELSE [c EXCEPT !.pc = "generateResponse"]

\* cacheManager.get(key) resolved with value
afterCacheGet(c, value, dryRun) ==
    IF value THEN nextStep(c)
    ELSE CASE c.job.handler = "handleLike" ->
                  IF dryRun THEN [c EXCEPT !.pc = "cacheSet"]
                  ELSE withRetry(c, "userFeed", TRUE)
           [] c.job.handler = "handleComment" /\ ~c.job.shouldRespond ->
                  [c EXCEPT !.pc = "cacheSet"]
           [] OTHER -> [c EXCEPT !.pc = "generateResponse"]

\* generateResponse settled: "text", "empty" or "throws"
afterGenerateResponse(c, response, dryRun) ==
    IF response = "throws" THEN afterCatch(c)
    ELSE IF response = "text" /\ ~dryRun THEN withRetry(c, "reply", FALSE)
    ELSE IF c.job.handler = "handleDirectMessage" THEN nextStep(c)
    ELSE [c EXCEPT !.pc = "cacheSet"]

\* the retryOperation call of the handler returned items
afterRetryReturned(c, items) ==
    CASE c.purpose = "thread" ->
             nextStep([c EXCEPT !.inner = messageJobs(items)])
      [] c.purpose = "comments" ->
             nextStep([c EXCEPT !.inner = postJobs(c.activity, items)])
      [] c.purpose = "userFeed" ->
             IF items # <<>> THEN withRetry(c, "like", FALSE)
             ELSE [c EXCEPT !.pc = "cacheSet", !.retry = NoRetry]
      [] OTHER -> [c EXCEPT !.pc = "cacheSet", !.retry = NoRetry]

\* what the operation of the pending call resolves with
Items(c) ==
    CASE c.purpose = "thread" -> Threads
      [] c.purpose = "comments" -> CommentFeeds
      [] c.purpose = "userFeed" -> {<<>>, <<"post">>}
      [] OTHER -> {<<>>}

\* the operation of the pending retryOperation call settled
afterRetryOperation(c, outcome, items) ==
    LET r == afterOperation(c.retry, outcome)
    IN  CASE r.pc = "returned" -> afterRetryReturned(c, items)
          [] r.pc = "threw" -> afterCatch(c)
          [] OTHER -> [c EXCEPT !.retry = r]

\* cacheManager.set(key, true) settled
afterCacheSet(c, ok) == IF ok THEN nextStep(c) ELSE afterCatch(c)

(***************************************************************************)
(* InstagramInteractionService: start, stop, processLoop and the events of *)
(* a cycle.  One action is one turn of the event loop.                     *)
(***************************************************************************)
Without(f, i) == [k \in DOMAIN f \ {i} |-> f[k]]
With(f, i, v) == [k \in DOMAIN f \cup {i} |-> IF k = i THEN v ELSE f[k]]

Replies(key) == IF key \in DOMAIN replies THEN replies[key] ELSE 0

\* processLoop of closure i, called by start or by its timeout, up to the
\* first await that does not resolve at once; stopped is this.stopProcessing
\* as the closure reads it
processLoop(i, stopped) ==
    IF stopped
    THEN /\ loops' = Without(loops, i)
         /\ UNCHANGED <<isProcessing, cycles, begun>>
    ELSE IF isProcessing
    THEN /\ loops' = With(loops, i, "timer")
         /\ UNCHANGED <<isProcessing, cycles, begun>>
    ELSE /\ begun < MaxCycles
         /\ isProcessing' = TRUE
         /\ begun' = begun + 1
         /\ cycles' = With(cycles, i, NewCycle)
         /\ loops' = With(loops, i, "processInteractions")

\* start(): lines 73-107
StartInteractions ==
    /\ Cardinality(DOMAIN loops) < MaxLoops
    /\ stopProcessing' = FALSE
    /\ processLoop(MinFree(DOMAIN loops), FALSE)
    /\ UNCHANGED <<cache, cacheWriteFailed, replies>>
    /\ UNCHANGED <<spacesVars, retry, postVars>>

\* stop(): lines 109-112
StopInteractions ==
    /\ stopProcessing' = TRUE
    /\ UNCHANGED <<isProcessing, loops, cycles, begun, cache,
                   cacheWriteFailed, replies>>
    /\ UNCHANGED <<spacesVars, retry, postVars>>

\* the timeout armed by closure i fires
LoopTimerFires(i) ==
    /\ i \in DOMAIN loops
    /\ loops[i] = "timer"
    /\ processLoop(i, stopProcessing)
    /\ UNCHANGED <<stopProcessing, cache, cacheWriteFailed, replies>>
    /\ UNCHANGED <<spacesVars, retry, postVars>>

\* the invocation awaited by closure i goes on as c: when it returned, the
\* finally block clears isProcessing and the closure arms its timeout unless
\* the service was stopped (lines 285-288, 88-101)
goesOn(i, c) ==
    /\ IF c.pc = "done"
       THEN /\ isProcessing' = FALSE
            /\ cycles' = Without(cycles, i)
            /\ loops' = IF stopProcessing THEN Without(loops, i)
                        ELSE With(loops, i, "timer")
       ELSE /\ cycles' = With(cycles, i, c)
            /\ UNCHANGED <<isProcessing, loops>>
    /\ UNCHANGED <<stopProcessing, begun>>
    /\ UNCHANGED <<spacesVars, retry, postVars>>

Suspended(i, pc) == i \in DOMAIN cycles /\ cycles[i].pc = pc

\* ensureLogin resolves (line 120)
EnsureLoginSettles(i, success) ==
    /\ Suspended(i, "ensureLogin")
    /\ goesOn(i, [cycles[i] EXCEPT !.pc = IF success THEN "fetchActivities"
                                          ELSE "done"])
    /\ UNCHANGED <<cache, cacheWriteFailed, replies>>

\* fetchActivities resolves with activities (line 129) or rejects (lines
\* 250-283)
FetchActivitiesSettles(i, ok, activities) ==
    /\ Suspended(i, "fetchActivities")
    /\ goesOn(i, IF ok THEN nextStep([cycles[i] EXCEPT !.todo = activities])
                 ELSE [cycles[i] EXCEPT !.pc = "done"])
    /\ UNCHANGED <<cache, cacheWriteFailed, replies>>

\* cacheManager.get resolves; dryRun is the setting INSTAGRAM_DRY_RUN
CacheGetSettles(i, dryRun) ==
    /\ Suspended(i, "cacheGet")
    /\ goesOn(i, afterCacheGet(cycles[i], cycles[i].job.key \in cache,
                               dryRun))
    /\ UNCHANGED <<cache, cacheWriteFailed, replies>>

GenerateResponseSettles(i, response, dryRun) ==
    /\ Suspended(i, "generateResponse")
    /\ goesOn(i, afterGenerateResponse(cycles[i], response, dryRun))
    /\ UNCHANGED <<cache, cacheWriteFailed, replies>>

\* a timeout of the retryOperation call of the handler elapses
HandlerDelayElapses(i) ==
    /\ Suspended(i, "retryOperation")
    /\ cycles[i].retry.pc \in {"delay", "wait"}
    /\ goesOn(i, [cycles[i] EXCEPT !.retry = afterDelay(@)])
    /\ UNCHANGED <<cache, cacheWriteFailed, replies>>

\* the operation of the retryOperation call of the handler settles; a reply
\* whose request resolved is posted
HandlerOperationSettles(i, outcome, items) ==
    /\ Suspended(i, "retryOperation")
    /\ cycles[i].retry.pc = "operation"
    /\ goesOn(i, afterRetryOperation(cycles[i], outcome, items))
    /\ replies' = IF outcome.ok /\ cycles[i].purpose = "reply"
                  THEN With(replies, cycles[i].job.key,
                            IF Replies(cycles[i].job.key) = 0 THEN 1 ELSE 2)
                  ELSE replies
    /\ UNCHANGED <<cache, cacheWriteFailed>>

\* cacheManager.set resolves or rejects
CacheSetSettles(i, ok) ==
    /\ Suspended(i, "cacheSet")
    /\ goesOn(i, afterCacheSet(cycles[i], ok))
    /\ cache' = IF ok THEN cache \cup {cycles[i].job.key} ELSE cache
    /\ cacheWriteFailed' = (cacheWriteFailed \/ ~ok)
    /\ UNCHANGED replies

ResponseKinds == {"text", "empty", "throws"}
HandlerOutcomes == {[ok |-> TRUE, value |-> "r1"],
                    [ok |-> FALSE, value |-> "Error"]}

CycleStep(i, lists) ==
    \/ \E success \in BOOLEAN : EnsureLoginSettles(i, success)
    \/ \E ok \in BOOLEAN, activities \in lists :
           /\ ok \/ activities = <<>>
           /\ FetchActivitiesSettles(i, ok, activities)
    \/ \E dryRun \in BOOLEAN : CacheGetSettles(i, dryRun)
    \/ \E response \in ResponseKinds, dryRun \in BOOLEAN :
           GenerateResponseSettles(i, response, dryRun)
    \/ HandlerDelayElapses(i)
    \/ /\ i \in DOMAIN cycles
       /\ \E outcome \in HandlerOutcomes, items \in Items(cycles[i]) :
              HandlerOperationSettles(i, outcome, items)
    \/ \E ok \in BOOLEAN : CacheSetSettles(i, ok)

NextInteractions ==
    \/ StartInteractions
    \/ StopInteractions
    \/ \E i \in 1..MaxLoops :
           LoopTimerFires(i) \/ CycleStep(i, ListsOf(OtherActivities))

SpecInteractions == Init /\ [][NextInteractions]_vars

\* the service started once: the cycles of one closure, over the activities
\* that are answered
NextDedup ==
    \/ loops = <<>> /\ begun = 0 /\ StartInteractions
    \/ LoopTimerFires(1)
    \/ CycleStep(1, ListsOf(ReplyActivities))

InitDedup == Init /\ elevenLabsApiKey = TRUE

SpecDedup == InitDedup /\ [][NextDedup]_vars

ReplyKeys == {commentKey("c1"), messageKey("d1"), mentionKey("m1")}

\* the handler call of invocation i generates or posts a reply
Answering(i) ==
    /\ i \in DOMAIN cycles
    /\ \/ cycles[i].pc = "generateResponse"
       \/ cycles[i].pc = "retryOperation" /\ cycles[i].purpose = "reply"

\* C34: over the sequential cycles of the interaction service, as long as no
\* cache write has failed, at most one reply is posted per comment id, per
\* direct-message item id and per mentioned media id; an item whose key is
\* set is skipped, nothing being generated or posted for it; and a key is
\* set only by the cache write that ends a handling that met no error, which
\* for a direct message is one that posted the reply.
RepliesOnce ==
    /\ [](~cacheWriteFailed => \A key \in ReplyKeys : Replies(key) <= 1)
    /\ [](\A i \in DOMAIN cycles : Answering(i) => cycles[i].job.key \notin cache)
    /\ [][\A key \in cache : Replies(key)' = Replies(key)]_vars
    /\ [][\A i \in DOMAIN cycles :
            (cycles[i].pc = "cacheGet" /\ cycles[i].job.key \in cache) =>
                /\ ~Answering(i)'
                /\ ~Suspended(i, "cacheSet")'
                /\ replies' = replies]_vars
    /\ [][cache' # cache =>
            \E i \in DOMAIN cycles :
                /\ cycles[i].pc = "cacheSet"
                /\ cache' = cache \cup {cycles[i].job.key}
                /\ cycles[i].job.handler = "handleDirectMessage" =>
                       Replies(cycles[i].job.key) >= 1]_vars
    /\ [][\A i \in DOMAIN cycles :
            (Answering(i) /\ ~Answering(i)' /\ ~Suspended(i, "cacheSet")') =>
                cache' = cache]_vars

RepliesOnceWitness ==
    /\ ~cacheWriteFailed
    /\ begun = 2
    /\ \A key \in ReplyKeys : key \in cache /\ Replies(key) = 1
    /\ Suspended(1, "cacheGet")
    /\ cycles[1].job.key = commentKey("c1")
    /\ cycles[1].inner # <<>>

\* C36: whatever the calls of start() and stop() and the timeouts that fire,
\* at most one processLoop closure is live (awaiting its cycle or its
\* timeout) and at most one processInteractions invocation is past its
\* guard; and while the service is stopped and not started again no
\* invocation passes the guard.
OneLoopOneCycle ==
    /\ [](Cardinality(DOMAIN loops) <= 1)
    /\ [](Cardinality(DOMAIN cycles) <= 1)
    /\ [][(stopProcessing /\ stopProcessing') => begun' = begun]_vars

(***************************************************************************)
(* InstagramPostService: start, stop, scheduleNextPost                     *)
(*                                                                         *)
(* A call in flight is suspended in generateNewPost, awaited by start or   *)
(* by scheduleNextPost, or at the cache read of scheduleNextPost.          *)
(***************************************************************************)
MaxPosts == 3
MaxChains == 2

PostCall(fn, pc) == [fn |-> fn, pc |-> pc]

\* the timeouts and calls that may still call scheduleNextPost
Chains == Cardinality(postTimers) + Cardinality(DOMAIN postCalls)

\* if (this.isRunning) setTimeout(() => scheduleNextPost(), delay): lines
\* 104-106, at the end of the call id
armsTimeout(id) ==
    /\ postCalls' = Without(postCalls, id)
    /\ postTimers' = IF isRunning THEN postTimers \cup {MinFree(postTimers)}
                     ELSE postTimers

\* start(): lines 71-84, up to await this.generateNewPost()
StartPosts ==
    /\ ~isRunning
    /\ Chains < MaxChains
    /\ generated < MaxPosts
    /\ isRunning' = TRUE
    /\ generated' = generated + 1
    /\ postCalls' = With(postCalls, MinFree(DOMAIN postCalls),
                         PostCall("start", "generateNewPost"))
    /\ UNCHANGED <<intervalId, postTimers>>
    /\ UNCHANGED <<spacesVars, interactionVars, retry>>

\* stop(): lines 117-123
StopPosts ==
    /\ isRunning' = FALSE
    /\ postTimers' = IF intervalId # NoTimer THEN postTimers \ {intervalId}
                     ELSE postTimers
    /\ UNCHANGED <<intervalId, postCalls, generated>>
    /\ UNCHANGED <<spacesVars, interactionVars, retry>>

\* generateNewPost returns: start goes on to call scheduleNextPost, which
\* reads the time of the last post (lines 86-91, 114); scheduleNextPost goes
\* on to arm its timeout
GenerateNewPostReturns(id) ==
    /\ id \in DOMAIN postCalls
    /\ postCalls[id].pc = "generateNewPost"
    /\ IF postCalls[id].fn = "start"
       THEN /\ postCalls' = With(postCalls, id,
                                 PostCall("scheduleNextPost", "cacheGet"))
            /\ UNCHANGED postTimers
       ELSE armsTimeout(id)
    /\ UNCHANGED <<isRunning, intervalId, generated>>
    /\ UNCHANGED <<spacesVars, interactionVars, retry>>

\* the cache read of scheduleNextPost resolves; elapsed is
\* Date.now() > lastPostTimestamp + delay (lines 93-102)
LastPostRead(id, elapsed) ==
    /\ id \in DOMAIN postCalls
    /\ postCalls[id].pc = "cacheGet"
    /\ IF elapsed
       THEN /\ generated < MaxPosts
            /\ generated' = generated + 1
            /\ postCalls' = With(postCalls, id,
                                 PostCall("scheduleNextPost",
                                          "generateNewPost"))
            /\ UNCHANGED postTimers
       ELSE /\ armsTimeout(id)
            /\ UNCHANGED generated
    /\ UNCHANGED <<isRunning, intervalId>>
    /\ UNCHANGED <<spacesVars, interactionVars, retry>>

\* a timeout armed by scheduleNextPost fires: scheduleNextPost is called
PostTimerFires(t) ==
    /\ t \in postTimers
    /\ postTimers' = postTimers \ {t}
    /\ postCalls' = With(postCalls, MinFree(DOMAIN postCalls),
                         PostCall("scheduleNextPost", "cacheGet"))
    /\ UNCHANGED <<isRunning, intervalId, generated>>
    /\ UNCHANGED <<spacesVars, interactionVars, retry>>

NextPosts ==
    \/ StartPosts
    \/ StopPosts
    \/ \E id \in 1..MaxChains : GenerateNewPostReturns(id)
    \/ \E id \in 1..MaxChains, elapsed \in BOOLEAN : LastPostRead(id, elapsed)
    \/ \E t \in 1..MaxChains : PostTimerFires(t)

SpecPosts == Init /\ [][NextPosts]_vars

\* C37: once InstagramPostService.stop() has returned, and until start() is
\* called again, generateNewPost is not invoked, whether or not a timeout of
\* scheduleNextPost was pending.
NoPostAfterStop ==
    [][(~isRunning /\ ~isRunning') => generated' = generated]_vars

====
